---- MODULE Spec2Model ----
(***************************************************************************)
(* AInsight backend: the agent/tool runtime (adk/Agent.ts), the execution  *)
(* gate (agents/ExecutionAgent.ts) and the orchestration loop              *)
(* (orchestration/AgentOrchestrator.ts).                                   *)
(*                                                                         *)
(* Program text (a SQL statement, a transformation script) is a sequence   *)
(* of atoms.  An atom is a run of characters that the program's regular    *)
(* expressions treat as a unit: a word made of \w characters ("DROP",      *)
(* "dRoP", "process", "ed"), one whitespace character (" ", "\n"), or a    *)
(* punctuator (".", "...", "$", "(").  Adjacent word atoms are adjacent    *)
(* characters: <<"process", "ed">> is the text "processed".  No two atoms  *)
(* form a keyword across their boundary, and the only atom that holds a    *)
(* denylisted name inside a longer word, "fetchData", is matched by no     *)
(* pattern of the program, so a keyword occurs in a text exactly where     *)
(* one of its atoms does.  An LLM completion is a text of the same kind;   *)
(* "<fence>" is the atom of a markdown code fence, and "rate_limit" is a   *)
(* word that holds the letters of LIMIT without being that keyword.        *)
(***************************************************************************)
EXTENDS Integers, Sequences, FiniteSets, TLC

VARIABLES
    \* ---- AgentOrchestrator (one processQuery call) ----
    pc,                  \* position of processQuery
    cfgMaxIterations,    \* config.maxIterations as passed (0: absent or falsy)
    maxIterations,       \* this.maxIterations
    dbAdapter,           \* this.dbAdapter is set (TRUE) or null (FALSE)
    understandingOutput, \* understandingOutput (after the || default)
    state,               \* the OrchestrationState being built
    refinementContext,   \* local refinementContext
    iterationInfo,       \* local iterationInfo of the running iteration
    lastCodeOutput,      \* local lastCodeOutput
    lastExecutionOutput, \* local lastExecutionOutput
    lastReasoningOutput, \* local lastReasoningOutput
    visualizationSpec,   \* local visualizationSpec
    raised,              \* the error processQuery rejected with ("none": has not)
    calls,               \* log of collaborator calls made by processQuery
    userQuery,           \* the userQuery argument
    \* ---- ExecutionAgent ----
    useMCP,              \* this.useMCP
    mcpConnected,        \* mcpClient && mcpServerId && mcpClient.isConnected(id)
    adapterCalls,        \* statements passed to dbAdapter.executeQuery, in order
    evaluated,           \* scripts handed to new Function(...) and run, in order
    mcpCalls,            \* statements/scripts passed to mcpClient.callTool
    execKinds,           \* which execution path each execute() call took
    \* ---- Agent.executeTool ----
    tools,               \* this.tools: the registered tools
    now,                 \* Date.now()
    toolRuns,            \* log of executeTool calls: request and outcome
    handlerCalls,        \* number of handler invocations so far
    \* ---- a tool handler and the LLM behind it ----
    pending,             \* the executeTool call being made and the LLM's answer to it
    \* ---- several orchestrators in one process ----
    orchestrators,       \* the AgentOrchestrator instances, by caller
    mcpClientInstance,   \* the module variable behind getMCPClient()
    \* ---- the catalog cache and the adapters that use it ----
    schemaCache,         \* the module's schemaCache map: config hash -> entry
    adapters,            \* the PostgreSQLAdapter of each caller and its getSchemaMetadata call
    \* ---- an AgentLoop and one run() call ----
    loopRun,             \* the locals of AgentLoop.run: position, state.error, stageResults
    \* ---- an MCPStdioConnection ----
    stdio                \* requestId, pendingRequests, the promises handed out, the pipe

vars == <<pc, cfgMaxIterations, maxIterations, dbAdapter, understandingOutput,
          state, refinementContext, iterationInfo, lastCodeOutput,
          lastExecutionOutput, lastReasoningOutput, visualizationSpec, raised,
          calls, userQuery, useMCP, mcpConnected, adapterCalls, evaluated, mcpCalls,
          execKinds, tools, now, toolRuns, handlerCalls, pending, orchestrators,
          mcpClientInstance, schemaCache, adapters, loopRun, stdio>>

orchVars == <<pc, cfgMaxIterations, maxIterations, understandingOutput,
              state, refinementContext, iterationInfo, lastCodeOutput,
              lastExecutionOutput, lastReasoningOutput, visualizationSpec,
              raised, calls, userQuery>>

gateVars == <<useMCP, mcpConnected, adapterCalls, evaluated, mcpCalls, execKinds>>

agentVars == <<tools, now, toolRuns, handlerCalls, pending, orchestrators,
               mcpClientInstance, schemaCache, adapters, loopRun, stdio>>

----------------------------------------------------------------------------
(* Bounds *)

MaxCodeLen == 3        \* atoms in an enumerated statement or script text
MaxIterCfg == 1        \* largest explicitly configured iteration ceiling
MaxToolRuns == 2       \* executeTool calls in one behaviour of the Agent
MaxClock == 3          \* Date.now() values

BoundedSeq(S, n) == UNION {[1..k -> S] : k \in 0..n}

----------------------------------------------------------------------------
(* Text: atoms and character classes *)

\* \s : whitespace characters
IsSpace(a) == a \in {" ", "\n", "\t"}

\* characters the regex '.' does not match
IsLineTerminator(a) == a \in {"\n"}

\* atoms that are not runs of \w characters ("<backtick>" is the template quote,
\* "<fence>" three of them in a row)
PunctAtoms ==
    {" ", "\n", "\t", ".", "...", "$", "(", ")", ";", "/**/", "=", "'", "<backtick>", "[", "]",
     "<fence>", "{", "}", ":"}

IsWordAtom(a) == a \notin PunctAtoms

\* the SQL keywords of the alphabets: <<upper case, lower case>>
KeywordCases ==
    { <<"DROP", "drop">>, <<"TABLE", "table">>, <<"DATABASE", "database">>,
      <<"DELETE", "delete">>, <<"FROM", "from">>, <<"TRUNCATE", "truncate">>,
      <<"ALTER", "alter">>, <<"CREATE", "create">>, <<"INSERT", "insert">>,
      <<"INTO", "into">>, <<"UPDATE", "update">>, <<"SET", "set">>,
      <<"GRANT", "grant">>, <<"REVOKE", "revoke">>, <<"SELECT", "select">>,
      <<"LIMIT", "limit">> }

\* mixed-case spellings used in the alphabets: <<spelling, upper case>>
MixedCases ==
    { <<"dRoP", "DROP">>, <<"tAbLe", "TABLE">>, <<"Truncate", "TRUNCATE">>,
      <<"Insert", "INSERT">>, <<"Revoke", "REVOKE">>, <<"Update", "UPDATE">> }

\* String.prototype.toUpperCase on one atom
Upper(a) ==
    IF \E p \in KeywordCases : p[2] = a
    THEN (CHOOSE p \in KeywordCases : p[2] = a)[1]
    ELSE IF \E m \in MixedCases : m[1] = a
         THEN (CHOOSE m \in MixedCases : m[1] = a)[2]
         ELSE a

\* String.prototype.toLowerCase on one atom
Lower(a) ==
    IF \E p \in KeywordCases : p[1] = Upper(a)
    THEN (CHOOSE p \in KeywordCases : p[1] = Upper(a))[2]
    ELSE a

LowerText(code) == [i \in 1..Len(code) |-> Lower(code[i])]

----------------------------------------------------------------------------
(* ExecutionAgent: error texts and results *)

UnsafeStatement == "Dangerous SQL operation detected. Read-only queries only."

StoreNotConfigured ==
    "Database adapter not configured. Please configure the database connection first."

FetchNotConfigured == "Database adapter not configured"

ForbiddenCapability(global) == "Access to '" \o global \o "' is not allowed in sandbox"

JavaScriptFailed(message) == "JavaScript execution failed: " \o message

\* messages of the faults the store adapter and a script can raise
AdapterErrors == {"syntax error at or near"}
ScriptErrors == {"x is not defined"}
McpErrors == {"MCP tool failed"}

\* result sets: "empty" is [], "rows" a non-empty array, "value" a single
\* non-array value; "undefined" is the absent data field
RowSets == {"empty", "rows"}

\* executionTime: Date.now() - startTime, some number of milliseconds
Elapsed == "Date.now() - startTime"

ExecutionSuccess(data) ==
    [success |-> TRUE, data |-> data, error |-> "undefined", executionTime |-> Elapsed]

ExecutionFailure(error) ==
    [success |-> FALSE, data |-> "undefined", error |-> error, executionTime |-> Elapsed]

\* what one run of execute() did: its ExecutionResult, the statements it
\* passed to dbAdapter.executeQuery, whether a script was evaluated, the
\* requests passed to mcpClient.callTool and the path taken
ExecOutcome(result, sent, ran, remote, kind) ==
    [result |-> result, sent |-> sent, ran |-> ran, remote |-> remote, kind |-> kind]

\* the catch clause of execute(): a throw becomes a failed ExecutionResult
Thrown(message, sent, ran, kind) ==
    ExecOutcome(ExecutionFailure(message), sent, ran, <<>>, kind)

----------------------------------------------------------------------------
(* ExecutionAgent.executeSQLCode *)

\* the forbiddenPatterns array: first keyword, what separates, second keyword
\*   "none"   /K1/i          "ws"   /K1\s+K2/i        "wsAnyWs"   /K1\s+.*\s+K2/i
forbiddenPatterns ==
    << [first |-> "DROP",     gap |-> "ws",      second |-> "TABLE"],
       [first |-> "DROP",     gap |-> "ws",      second |-> "DATABASE"],
       [first |-> "DELETE",   gap |-> "ws",      second |-> "FROM"],
       [first |-> "TRUNCATE", gap |-> "none",    second |-> ""],
       [first |-> "ALTER",    gap |-> "ws",      second |-> "TABLE"],
       [first |-> "CREATE",   gap |-> "ws",      second |-> "TABLE"],
       [first |-> "INSERT",   gap |-> "ws",      second |-> "INTO"],
       [first |-> "UPDATE",   gap |-> "wsAnyWs", second |-> "SET"],
       [first |-> "GRANT",    gap |-> "none",    second |-> ""],
       [first |-> "REVOKE",   gap |-> "none",    second |-> ""] >>

\* the i flag dropped: a keyword matches only in upper case
KeywordMatchesCaseSensitive(a, keyword) == a = keyword

\* one keyword of a pattern against one atom, under the i flag
KeywordMatches(a, keyword) == Upper(a) = keyword

\* \s+ between positions i and j: at least one atom, all whitespace
SpacesBetween(code, i, j) ==
    /\ j >= i + 2
    /\ \A k \in (i + 1)..(j - 1) : IsSpace(code[k])

\* \s+.*\s+ between positions i and j: whitespace, then anything on one
\* line, then whitespace
SpacesAnySpacesBetween(code, i, j) ==
    \E p \in (i + 1)..(j - 2) : \E q \in (p + 1)..(j - 1) :
        /\ \A k \in (i + 1)..p : IsSpace(code[k])
        /\ \A k \in q..(j - 1) : IsSpace(code[k])
        /\ \A k \in (p + 1)..(q - 1) : ~IsLineTerminator(code[k])

\* pattern.test(code)
PatternTest(pattern, code) ==
    \E i \in 1..Len(code) :
        /\ KeywordMatches(code[i], pattern.first)
        /\ \/ pattern.gap = "none"
           \/ /\ pattern.gap = "ws"
              /\ \E j \in (i + 1)..Len(code) :
                    /\ KeywordMatches(code[j], pattern.second)
                    /\ SpacesBetween(code, i, j)
           \/ /\ pattern.gap = "wsAnyWs"
              /\ \E j \in (i + 1)..Len(code) :
                    /\ KeywordMatches(code[j], pattern.second)
                    /\ SpacesAnySpacesBetween(code, i, j)

\* the for loop over forbiddenPatterns
ForbiddenSQL(code) ==
    \E n \in 1..Len(forbiddenPatterns) : PatternTest(forbiddenPatterns[n], code)

\* dbAdapter.executeQuery(sql): rows, or a fault of the store
executeQuery(sql) ==
    {[ok |-> TRUE, rows |-> d, error |-> "undefined"] : d \in RowSets}
    \cup {[ok |-> FALSE, rows |-> "undefined", error |-> e] : e \in AdapterErrors}

executeSQLCode(code, db) ==
    IF ForbiddenSQL(code)
    THEN {Thrown(UnsafeStatement, <<>>, FALSE, "sql")}
    ELSE IF ~db
         THEN {Thrown(StoreNotConfigured, <<>>, FALSE, "sql")}
         ELSE {IF r.ok THEN ExecOutcome(ExecutionSuccess(r.rows), <<code>>, FALSE, <<>>, "sql")
                       ELSE Thrown(r.error, <<code>>, FALSE, "sql") : r \in executeQuery(code)}

----------------------------------------------------------------------------
(* ExecutionAgent.executeJavaScriptCode *)

blockedGlobals ==
    << "require", "process", "global", "globalThis", "__dirname", "__filename",
       "module", "exports", "Buffer", "fetch", "XMLHttpRequest", "WebSocket",
       "eval", "Function" >>

\* the names the body handed to new Function declares as const ... = undefined
shadowedGlobals == {"require", "process", "global", "globalThis", "fetch"}

\* what a bare name denotes inside that body: the inert constant when the
\* body declares it, else whatever the enclosing global scope binds it to
ScopeBinding(name) ==
    IF name \in shadowedGlobals THEN "undefined" ELSE "global scope"

\* the lookbehind (?<![.\w]) at position i: the character before is neither
\* '.' nor a \w character
NotAfterDotOrWord(code, i) ==
    \/ i = 1
    \/ /\ ~IsWordAtom(code[i - 1])
       /\ code[i - 1] \notin {".", "..."}

\* the lookahead (?![\w]) at position i: the character after is no \w character
NotBeforeWord(code, i) ==
    \/ i = Len(code)
    \/ ~IsWordAtom(code[i + 1])

\* new RegExp(`(?<![.\\w])${global}(?![\\w])`, 'g').test(code)
GlobalPatternTest(code, global) ==
    \E i \in 1..Len(code) :
        /\ code[i] = global
        /\ NotAfterDotOrWord(code, i)
        /\ NotBeforeWord(code, i)

\* the first entry of blockedGlobals the for loop throws on (0: none)
FirstBlocked(code) ==
    IF \E n \in 1..Len(blockedGlobals) : GlobalPatternTest(code, blockedGlobals[n])
    THEN CHOOSE n \in 1..Len(blockedGlobals) :
            /\ GlobalPatternTest(code, blockedGlobals[n])
            /\ \A m \in 1..(n - 1) : ~GlobalPatternTest(code, blockedGlobals[m])
    ELSE 0

\* What a script does once it runs.  Its fetches are the fetchData('...')
\* and sql`...` calls of its text, in order; how it ends if every fetch
\* returns depends on the rows and is left open ("array": returns an array,
\* "value": returns a non-array value, "throw": throws, "syntax": new
\* Function rejects the text and nothing runs).
CallAt(code, i) ==
    LET open == IF code[i] = "fetchData" THEN i + 2 ELSE i + 1
        closing == {j \in (open + 1)..Len(code) : code[j] = code[open]}
        close == IF closing = {} THEN Len(code) + 1
                 ELSE CHOOSE j \in closing : \A k \in closing : j <= k
    IN  [via |-> code[i], text |-> SubSeq(code, open + 1, close - 1)]

IsCallStart(code, i) ==
    \/ i + 2 <= Len(code) /\ code[i] = "fetchData" /\ code[i + 1] = "(" /\ code[i + 2] = "'"
    \/ i + 1 <= Len(code) /\ code[i] = "sql" /\ code[i + 1] = "<backtick>"

RECURSIVE ScriptCallsFrom(_, _)
ScriptCallsFrom(code, i) ==
    IF i > Len(code)
    THEN <<>>
    ELSE IF IsCallStart(code, i)
         THEN <<CallAt(code, i)>> \o ScriptCallsFrom(code, i + 1)
         ELSE ScriptCallsFrom(code, i + 1)

ScriptBehaviours(code) ==
    [fetches : {ScriptCallsFrom(code, 1)}, ending : {"array", "value", "throw"}]
    \cup {[fetches |-> <<>>, ending |-> "syntax"]}

\* fetchData without its adapter test: the call on a null adapter throws
fetchDataUnchecked(sql, db) ==
    IF ~db
    THEN {[ok |-> FALSE, rows |-> "undefined",
           error |-> "Cannot read properties of null (reading 'executeQuery')",
           sent |-> <<>>]}
    ELSE {[ok |-> r.ok, rows |-> r.rows, error |-> r.error, sent |-> <<sql>>] :
            r \in executeQuery(sql)}

\* fetchData(sql) inside the sandbox: the adapter's rows, or a throw
fetchData(sql, db) ==
    IF ~db
    THEN {[ok |-> FALSE, rows |-> "undefined", error |-> FetchNotConfigured, sent |-> <<>>]}
    ELSE {[ok |-> r.ok, rows |-> r.rows, error |-> r.error, sent |-> <<sql>>] :
            r \in executeQuery(sql)}

\* the sql tagged template: joins its parts into one statement and fetches it
sqlTemplate(query, db) == fetchData(query, db)

ScriptFetch(call, db) ==
    IF call.via = "sql" THEN sqlTemplate(call.text, db) ELSE fetchData(call.text, db)

\* the script's fetches in order; the script stops at the first one that throws
RECURSIVE RunFetches(_, _)
RunFetches(fetches, db) ==
    IF fetches = <<>>
    THEN {[ok |-> TRUE, error |-> "undefined", sent |-> <<>>]}
    ELSE LET first == ScriptFetch(Head(fetches), db)
         IN  UNION {IF f.ok
                    THEN {[ok |-> r.ok, error |-> r.error, sent |-> f.sent \o r.sent] :
                            r \in RunFetches(Tail(fetches), db)}
                    ELSE {[ok |-> FALSE, error |-> f.error, sent |-> f.sent]} : f \in first}

\* await fn(fetchData, sql, {}, mockConsole) and the result wrapping
RunScript(behaviour, db) ==
    IF behaviour.ending = "syntax"
    THEN {Thrown(JavaScriptFailed("Unexpected token"), <<>>, FALSE, "javascript")}
    ELSE UNION {
        IF ~r.ok
        THEN {Thrown(JavaScriptFailed(r.error), r.sent, TRUE, "javascript")}
        ELSE CASE behaviour.ending = "array" ->
                    {ExecOutcome(ExecutionSuccess(d), r.sent, TRUE, <<>>, "javascript") :
                        d \in RowSets}
               [] behaviour.ending = "value" ->
                    {ExecOutcome(ExecutionSuccess("rows"), r.sent, TRUE, <<>>, "javascript")}
               [] OTHER ->
                    {Thrown(JavaScriptFailed(e), r.sent, TRUE, "javascript") :
                        e \in ScriptErrors}
        : r \in RunFetches(behaviour.fetches, db)}

executeJavaScriptCode(code, db) ==
    IF FirstBlocked(code) # 0
    THEN {Thrown(ForbiddenCapability(blockedGlobals[FirstBlocked(code)]), <<>>, FALSE,
                 "javascript")}
    ELSE UNION {RunScript(behaviour, db) : behaviour \in ScriptBehaviours(code)}

----------------------------------------------------------------------------
(* ExecutionAgent.executeViaMCP and ExecutionAgent.execute *)

\* mcpClient.callTool(...): a result text, parsed as JSON or wrapped, or a throw
executeViaMCP(input) ==
    LET request == [tool |-> IF input.language = "sql" THEN "execute_query"
                                                        ELSE "execute_code",
                    code |-> input.code]
    IN  {ExecOutcome(ExecutionSuccess(d), <<>>, FALSE, <<request>>, "mcp") : d \in {"rows"}}
        \cup {ExecOutcome(ExecutionFailure(e), <<>>, FALSE, <<request>>, "mcp") :
                e \in McpErrors}

\* every artifact taken for a statement, whatever its declared language
executeAsSQL(input, db, mcp) ==
    IF mcp THEN executeViaMCP(input) ELSE executeSQLCode(input.code, db)

\* execute(input): every way one call can go
execute(input, db, mcp) ==
    IF mcp
    THEN executeViaMCP(input)
    ELSE IF input.language = "sql"
         THEN executeSQLCode(input.code, db)
         ELSE executeJavaScriptCode(input.code, db)

----------------------------------------------------------------------------
(* Agent.executeTool *)

\* What the handler of a tool does with a validated input: returns a value
\* ("valid": one its output schema accepts, "invalid": one it rejects) or
\* throws (an Error with a message, or a value that is no Error).
Returned(output) == [kind |-> "return", output |-> output, message |-> "undefined"]
ThrewError(message) == [kind |-> "throwError", output |-> "undefined", message |-> message]
ThrewValue == [kind |-> "throwValue", output |-> "undefined", message |-> "undefined"]

RunResult(success, output, error, agentName, startTime, endTime) ==
    [success |-> success, output |-> output, error |-> error,
     executionTime |-> endTime - startTime, agentName |-> agentName,
     timestamp |-> endTime]

ToolNotFound(agentName, toolName, startTime, endTime) ==
    [threw |-> FALSE, handlerInvoked |-> FALSE,
     result |-> RunResult(FALSE, "undefined", "Tool '" \o toolName \o "' not found",
                          agentName, startTime, endTime)]

\* the try / catch without the outputSchema.parse(output) step
ToolTryUnvalidated(agentName, inputValid, outputValid, handler, startTime, endTime) ==
    IF ~inputValid
    THEN [threw |-> FALSE, handlerInvoked |-> FALSE,
          result |-> RunResult(FALSE, "undefined", "Invalid input", agentName, startTime,
                               endTime)]
    ELSE IF handler.kind = "return"
    THEN [threw |-> FALSE, handlerInvoked |-> TRUE,
          result |-> RunResult(TRUE, handler.output, "undefined", agentName, startTime,
                               endTime)]
    ELSE [threw |-> FALSE, handlerInvoked |-> TRUE,
          result |-> RunResult(FALSE, "undefined",
                               IF handler.kind = "throwError" THEN handler.message
                               ELSE "Unknown error",
                               agentName, startTime, endTime)]

\* the try / catch of executeTool, for a registered tool.  inputValid:
\* tool.inputSchema.parse(input) returns; outputValid: the tool declares no
\* outputSchema or outputSchema.parse(output) returns; handler: what the
\* handler does if invoked.  threw: the call rejects instead of returning.
ToolTry(agentName, inputValid, outputValid, handler, startTime, endTime) ==
    IF ~inputValid
    THEN [threw |-> FALSE, handlerInvoked |-> FALSE,
          result |-> RunResult(FALSE, "undefined", "Invalid input", agentName, startTime,
                               endTime)]
    ELSE IF handler.kind = "throwError"
    THEN [threw |-> FALSE, handlerInvoked |-> TRUE,
          result |-> RunResult(FALSE, "undefined", handler.message, agentName, startTime,
                               endTime)]
    ELSE IF handler.kind = "throwValue"
    THEN [threw |-> FALSE, handlerInvoked |-> TRUE,
          result |-> RunResult(FALSE, "undefined", "Unknown error", agentName, startTime,
                               endTime)]
    ELSE IF ~outputValid
    THEN [threw |-> FALSE, handlerInvoked |-> TRUE,
          result |-> RunResult(FALSE, "undefined", "Invalid output", agentName, startTime,
                               endTime)]
    ELSE [threw |-> FALSE, handlerInvoked |-> TRUE,
          result |-> RunResult(TRUE, handler.output, "undefined", agentName, startTime,
                               endTime)]

\* executeTool with the input validation and the handler call outside the try
executeToolUnguarded(agentName, toolName, registered, inputValid, outputValid, handler, startTime, endTime) ==
    IF ~registered
    THEN ToolNotFound(agentName, toolName, startTime, endTime)
    ELSE IF ~inputValid \/ handler.kind # "return"
    THEN [threw |-> TRUE, handlerInvoked |-> inputValid,
          result |-> RunResult(FALSE, "undefined", "undefined", agentName, startTime,
                               startTime)]
    ELSE ToolTry(agentName, inputValid, outputValid, handler, startTime, endTime)

\* executeTool(toolName, input); registered: this.tools.get(toolName) is set
executeTool(agentName, toolName, registered, inputValid, outputValid, handler, startTime, endTime) ==
    IF ~registered
    THEN ToolNotFound(agentName, toolName, startTime, endTime)
    ELSE ToolTry(agentName, inputValid, outputValid, handler, startTime, endTime)

\* a stage call of the orchestrator: a registered tool, no clock
StageCall(agentName, toolName, inputValid, handler) ==
    executeTool(agentName, toolName, TRUE, inputValid, TRUE, handler, 0, 0).result

----------------------------------------------------------------------------
(* The tool handlers and the LLM completions they work on *)

Null == [kind |-> "null"]

\* what this.llm.chat.completions.create settles with: a completion whose
\* content is a text (<<>> is '', also standing for a missing content), or a
\* rejection
Completion(content) == [kind |-> "content", content |-> content, message |-> "undefined"]
Rejection(message) == [kind |-> "rejected", content |-> <<>>, message |-> message]

EmptyCompletion ==
    "LLM returned empty response. Check if LiteLLM proxy is running and API key is valid."

JSONParseFailed == "Failed to parse LLM response as JSON"

\* String.prototype.trim
RECURSIVE TrimStart(_)
TrimStart(text) ==
    IF text # <<>> /\ IsSpace(Head(text)) THEN TrimStart(Tail(text)) ELSE text

RECURSIVE TrimEnd(_)
TrimEnd(text) ==
    IF text # <<>> /\ IsSpace(text[Len(text)])
    THEN TrimEnd(SubSeq(text, 1, Len(text) - 1))
    ELSE text

Trim(text) == TrimEnd(TrimStart(text))

\* the word atoms of the alphabets that have `needle` as a substring
AtomsContaining(needle) ==
    IF needle = "limit" THEN {"limit", "rate_limit"} ELSE {needle}

\* text.toLowerCase().includes(needle), for a needle of \w characters
LowerIncludes(text, needle) ==
    \E i \in DOMAIN text : Lower(text[i]) \in AtomsContaining(needle)

\* Agent.chat: the content of the first choice, '' when there is none; a
\* rejection of the provider call is rethrown
chat(response) ==
    IF response.kind = "rejected"
    THEN [threw |-> TRUE, message |-> response.message, content |-> <<>>]
    ELSE [threw |-> FALSE, message |-> "undefined", content |-> response.content]

\* positions of the code fences of a text
Fences(text) == {i \in DOMAIN text : text[i] = "<fence>"}

Min(S) == CHOOSE x \in S : \A y \in S : x <= y
Max(S) == CHOOSE x \in S : \A y \in S : y <= x

\* text.match(/<fence><tag>([\s\S]*?)<fence>/): the leftmost opening fence
\* followed by `tag` ("" for none) that has a closing fence after it, and the
\* text up to the first such closing fence
FenceOpenings(text, tag) ==
    {i \in Fences(text) :
        /\ tag # "" => (i < Len(text) /\ text[i + 1] = tag)
        /\ \E j \in Fences(text) : j > i + (IF tag = "" THEN 0 ELSE 1)}

FenceMatches(text, tag) == FenceOpenings(text, tag) # {}

FenceCapture(text, tag) ==
    LET i == Min(FenceOpenings(text, tag))
        first == i + (IF tag = "" THEN 1 ELSE 2)
        j == Min({k \in Fences(text) : k >= first})
    IN  SubSeq(text, first, j - 1)

\* text.match(/\{[\s\S]*\}/): from the first "{" to the last "}" after it
BraceMatches(text) ==
    \E i, j \in DOMAIN text : i < j /\ text[i] = "{" /\ text[j] = "}"

BraceCapture(text) ==
    LET i == Min({k \in DOMAIN text : text[k] = "{"})
        j == Max({k \in DOMAIN text : text[k] = "}"})
    IN  SubSeq(text, i, j)

\* the texts JSON.parse accepts, among those of the alphabets, and their values
JSONDocuments ==
    { [text |-> <<"{", "}">>, value |-> [kind |-> "object", satisfiesQuery |-> "undefined",
                                        reason |-> "undefined",
                                        suggestedRefinement |-> "undefined"]],
      [text |-> <<"{", "satisfied", "}">>,
       value |-> [kind |-> "object", satisfiesQuery |-> "true",
                  reason |-> "The result answers the query",
                  suggestedRefinement |-> "undefined"]],
      [text |-> <<"{", "unsatisfied", "}">>,
       value |-> [kind |-> "object", satisfiesQuery |-> "false",
                  reason |-> "The result is empty",
                  suggestedRefinement |-> "Filter on the last month"]],
      [text |-> <<"{", "classification", "}">>,
       value |-> [kind |-> "classification", satisfiesQuery |-> "undefined",
                  reason |-> "undefined", suggestedRefinement |-> "undefined"]],
      [text |-> <<"{", "chart", "}">>,
       value |-> [kind |-> "chart", satisfiesQuery |-> "undefined",
                  reason |-> "undefined", suggestedRefinement |-> "undefined"]] }

JSONParses(text) == \E d \in JSONDocuments : d.text = text

JSONParse(text) == (CHOOSE d \in JSONDocuments : d.text = text).value

\* text.match(/<fence>(?:json)?\s*([\s\S]*?)\s*<fence>/), when it matches
JSONFenceCapture(text) ==
    LET i == Min(FenceOpenings(text, ""))
        first == IF i < Len(text) /\ text[i + 1] = "json" THEN i + 2 ELSE i + 1
        j == Min({k \in Fences(text) : k >= first})
    IN  SubSeq(text, first, j - 1)

\* Agent.chatJSON(..., schema): schemaKind is the kind of value the schema accepts
chatJSON(response, schemaKind) ==
    LET r == chat(response)
        jsonStr == IF FenceMatches(r.content, "") THEN JSONFenceCapture(r.content)
                   ELSE IF BraceMatches(r.content) THEN BraceCapture(r.content)
                   ELSE r.content
        trimmed == Trim(jsonStr)
    IN  IF r.threw THEN [threw |-> TRUE, message |-> r.message, value |-> Null]
        ELSE IF Trim(r.content) = <<>>
        THEN [threw |-> TRUE, message |-> EmptyCompletion, value |-> Null]
        ELSE IF trimmed = <<>> \/ ~JSONParses(trimmed) \/ JSONParse(trimmed).kind # schemaKind
        THEN [threw |-> TRUE, message |-> JSONParseFailed, value |-> Null]
        ELSE [threw |-> FALSE, message |-> "undefined", value |-> JSONParse(trimmed)]

\* CodeGenerationAgent.extractCode
extractCode(responseText) ==
    IF FenceMatches(responseText, "sql")
    THEN [code |-> Trim(FenceCapture(responseText, "sql")), language |-> "sql"]
    ELSE IF FenceMatches(responseText, "javascript")
    THEN [code |-> Trim(FenceCapture(responseText, "javascript")),
          language |-> "javascript"]
    ELSE IF FenceMatches(responseText, "")
    THEN LET code == Trim(FenceCapture(responseText, ""))
         IN  [code |-> code,
              language |-> IF LowerIncludes(code, "select") THEN "sql" ELSE "javascript"]
    ELSE [code |-> Trim(responseText), language |-> "javascript"]

DefaultMaxRows == "500"

\* input.maxRows || 500, as the digits put into the statement
MaxRowsOf(input) == IF input.maxRows = "undefined" THEN DefaultMaxRows ELSE input.maxRows

\* code.replace(/;?\s*$/, ` LIMIT ${maxRows};`) on a trimmed text
AppendLimit(code, maxRows) ==
    LET body == IF code # <<>> /\ code[Len(code)] = ";"
                THEN SubSeq(code, 1, Len(code) - 1)
                ELSE code
    IN  body \o <<" ", "LIMIT", " ", maxRows, ";">>

\* "Ensure SQL queries have LIMIT if not present"
EnsureLimit(code, language, maxRows) ==
    IF language = "sql" /\ ~LowerIncludes(code, "limit")
    THEN AppendLimit(code, maxRows)
    ELSE code

\* CodeGenerationAgent.generate
generate(input, response) ==
    LET r == chat(response)
        extracted == extractCode(r.content)
    IN  IF r.threw THEN ThrewError(r.message)
        ELSE Returned([code |-> EnsureLimit(extracted.code, extracted.language,
                                            MaxRowsOf(input)),
                       language |-> extracted.language,
                       requiresVisualization |-> input.requiresVisualization])

\* ReasoningAgent.reason, for a completion without sentence terminators: the
\* trimmed text is the one sentence, and a full stop is put after it
reason(input, response) ==
    LET r == chat(response)
    IN  IF r.threw THEN ThrewError(r.message)
        ELSE Returned([explanation |-> Trim(r.content) \o <<".">>, insights |-> <<>>])

UnparsedEvaluation == "Unable to parse evaluation, assuming query is satisfied"

\* ReasoningAgent.evaluate
evaluate(input, response) ==
    LET r == chat(response)
        parsed == JSONParse(BraceCapture(r.content))
    IN  IF r.threw THEN ThrewError(r.message)
        ELSE IF BraceMatches(r.content) /\ JSONParses(BraceCapture(r.content))
        THEN Returned([satisfiesQuery |-> parsed.satisfiesQuery = "true",
                       reason |-> IF parsed.reason = "undefined"
                                  THEN "No reason provided" ELSE parsed.reason,
                       suggestedRefinement |-> parsed.suggestedRefinement])
        ELSE Returned([satisfiesQuery |-> TRUE, reason |-> UnparsedEvaluation,
                       suggestedRefinement |-> "undefined"])

\* the queries a tool is called with: one about data, one matching
\* casualPatterns, one holding a word of visualKeywords
ToolQueries == {"how many rows", "hello", "show monthly trend"}

\* the keyword heuristics of the catch block of classify
HeuristicClassification(query) ==
    IF query = "hello"
    THEN [requiresDatabase |-> FALSE, shouldVisualize |-> FALSE, intent |-> "casual_chat",
          chatResponse |-> "Hello!"]
    ELSE [requiresDatabase |-> TRUE, shouldVisualize |-> query = "show monthly trend",
          intent |-> "analysis", chatResponse |-> "undefined"]

\* QueryUnderstandingAgent.classify; the one classification among
\* JSONDocuments asks for data and a chart
classify(input, response) ==
    LET r == chatJSON(response, "classification")
    IN  IF r.threw THEN Returned(HeuristicClassification(input.query))
        ELSE Returned([requiresDatabase |-> TRUE, shouldVisualize |-> TRUE,
                       intent |-> "analysis", chatResponse |-> "undefined"])

\* ChartGenerationAgent.generateChart: fallbackChartSpec in the catch block
generateChart(input, response) ==
    LET r == chatJSON(response, "chart")
    IN  IF r.threw THEN Returned([visualizationSpec |-> "table"])
        ELSE Returned([visualizationSpec |-> "bar"])

----------------------------------------------------------------------------
(* AgentOrchestrator: values *)

DefaultMaxIterations == 3

\* the query text a caller passes; isString: typeof userQuery is "string"
Queries == [text : {"how many rows"}, isString : BOOLEAN]

\* collaborator faults
LLMErrors == {"LLM request failed"}
CatalogErrors == {"connect ECONNREFUSED"}

NoStore == "Database not configured. Please configure the database connection first."

\* --- QueryUnderstandingAgent.classify: what the handler returns
ClassifyOutputs ==
    [requiresDatabase : BOOLEAN, shouldVisualize : BOOLEAN, intent : {"analysis"},
     chatResponse : {"undefined", "Hello!"}]

\* classify catches every fault of its completion and falls back on keyword
\* heuristics, so it always returns a value of its declared output shape; the
\* tool fails only on an input whose query is no string
ClassifyResults(query) ==
    {StageCall("query-understanding", "classify", TRUE, Returned(o)) : o \in ClassifyOutputs}
    \cup (IF query.isString THEN {}
          ELSE {StageCall("query-understanding", "classify", FALSE, ThrewValue)})

\* a default that takes a failed classification for small talk
DefaultUnderstandingChat ==
    [requiresDatabase |-> FALSE, shouldVisualize |-> FALSE, intent |-> "unknown",
     chatResponse |-> "undefined"]

DefaultUnderstanding ==
    [requiresDatabase |-> TRUE, shouldVisualize |-> FALSE, intent |-> "unknown",
     chatResponse |-> "undefined"]

DefaultChatReply ==
    "I'm here to help you analyze your data. Ask me anything about your database!"

\* --- the catalog
Schemas == {"schema", "schema with orders"}

\* --- CodeGenerationAgent.generate: the artifacts the handler returns
GeneratedCode ==
    { [code |-> <<"SELECT", " ", "t", " ", "LIMIT">>, language |-> "sql"],
      [code |-> <<"dRoP", " ", "TABLE", " ", "t", " ", "LIMIT">>, language |-> "sql"],
      [code |-> <<"return", " ", "fetchData", "(", "'", "SELECT", " ", "t", "'", ")">>,
       language |-> "javascript"] }

GenerateResults(query, requiresVisualization) ==
    IF ~query.isString
    THEN {StageCall("code-generation", "generate", FALSE, ThrewValue)}
    ELSE {StageCall("code-generation", "generate", TRUE,
                    Returned([code |-> g.code, language |-> g.language,
                              requiresVisualization |-> requiresVisualization])) :
            g \in GeneratedCode}
         \cup {StageCall("code-generation", "generate", TRUE, ThrewError(e)) : e \in LLMErrors}

DefaultCodeOutput == [code |-> <<>>, language |-> "sql", requiresVisualization |-> FALSE]

DefaultExecutionOutput ==
    [success |-> FALSE, data |-> "undefined", error |-> "Execution failed",
     executionTime |-> 0]

\* --- ReasoningAgent.reason
ReasonResults ==
    {StageCall("reasoning", "reason", TRUE,
               Returned([explanation |-> "The table has rows.", insights |-> <<>>]))}
    \cup {StageCall("reasoning", "reason", TRUE, ThrewError(e)) : e \in LLMErrors}

DefaultReasoningOutput ==
    [explanation |-> "Unable to generate explanation.", insights |-> <<>>]

\* --- ReasoningAgent.evaluate: a parsed verdict, the handler's own fallback
\* when the completion does not parse, or a fault of the completion
\* completions the evaluate call can settle with: a verdict of each kind, an
\* object without the verdict's properties, and texts JSON.parse rejects or
\* that hold no object at all
EvaluateCompletions ==
    { <<"{", "satisfied", "}">>,
      <<"{", "}">>,
      <<"Here", " ", "it", " ", "is", ":", " ", "{", "unsatisfied", "}">>,
      <<"{", "satisfied">>,
      <<"{", "SELECT", "}">>,
      <<>> }

Verdicts == {evaluate(Null, Completion(c)).output : c \in EvaluateCompletions}

EvaluateResults ==
    {StageCall("reasoning", "evaluate", TRUE, evaluate(Null, Completion(c))) :
        c \in EvaluateCompletions}
    \cup {StageCall("reasoning", "evaluate", TRUE, evaluate(Null, Rejection(e))) :
            e \in LLMErrors}

\* a pessimistic default: a failed evaluation counts as unsatisfied
DefaultEvaluationUnsatisfied ==
    [satisfiesQuery |-> FALSE, reason |-> "Evaluation failed",
     suggestedRefinement |-> "undefined"]

DefaultEvaluation ==
    [satisfiesQuery |-> TRUE, reason |-> "Evaluation completed",
     suggestedRefinement |-> "undefined"]

NoEvaluation ==
    [satisfiesQuery |-> FALSE, reason |-> "undefined", suggestedRefinement |-> "undefined"]

\* --- ChartGenerationAgent.generateChart
\* the handler returns the chart the LLM chose, or falls back on its own
\* detection when the completion is a fault, empty or no chart; the tool fails
\* on rows that are not records (a script returned scalars)
ChartCompletions ==
    {Completion(<<"{", "chart", "}">>), Completion(<<>>)}
    \cup {Rejection(e) : e \in LLMErrors}

ChartResults ==
    {StageCall("chart-generation", "generateChart", TRUE, generateChart(Null, r)) :
        r \in ChartCompletions}
    \cup {StageCall("chart-generation", "generateChart", FALSE, ThrewValue)}

\* --- refinement hints
NoHint == [kind |-> "undefined", text |-> "undefined"]

\* `Previous SQL execution failed with error: ${error}. Please fix the query.`
ExecutionHint(error) == [kind |-> "executionFailed", text |-> error]

\* suggestedRefinement || `The previous result did not fully satisfy the
\* query. Reason: ${reason}. Please generate a better query.`
\* the generic hint whatever the evaluator suggested
EvaluationHintGeneric(evaluation) == [kind |-> "notSatisfied", text |-> evaluation.reason]

EvaluationHint(evaluation) ==
    IF evaluation.suggestedRefinement # "undefined"
    THEN [kind |-> "suggested", text |-> evaluation.suggestedRefinement]
    ELSE [kind |-> "notSatisfied", text |-> evaluation.reason]

----------------------------------------------------------------------------
(* AgentOrchestrator: constructor and processQuery *)

\* config?.maxIterations || 3
ConfiguredMaxIterations(cfg) == IF cfg = 0 THEN DefaultMaxIterations ELSE cfg

Response(stage, output) == [stage |-> stage, output |-> output]

NoState ==
    [query |-> "undefined", schemaMetadata |-> "undefined", responses |-> <<>>,
     finalResult |-> Null, iterations |-> 0, iterationHistory |-> <<>>]

NoIteration == [iteration |-> 0, refinementContext |-> NoHint, evaluation |-> NoEvaluation,
                evaluated |-> FALSE]

\* the state of an ExecutionAgent and of an Agent nobody has called
GateIdle ==
    /\ adapterCalls = <<>>
    /\ evaluated = <<>>
    /\ mcpCalls = <<>>
    /\ execKinds = <<>>

AgentIdle ==
    /\ tools = {}
    /\ now = 0
    /\ toolRuns = <<>>
    /\ handlerCalls = 0
    /\ pending = Null
    /\ orchestrators = <<>>
    /\ mcpClientInstance = Null
    /\ schemaCache = <<>>
    /\ adapters = <<>>
    /\ loopRun = Null
    /\ stdio = Null

\* new AgentOrchestrator(llm, config) followed by the call processQuery(userQuery)
Init ==
    /\ pc = "understanding"
    /\ cfgMaxIterations \in 0..MaxIterCfg
    /\ maxIterations = ConfiguredMaxIterations(cfgMaxIterations)
    /\ dbAdapter \in BOOLEAN
    /\ userQuery \in Queries
    /\ understandingOutput = DefaultUnderstanding
    /\ state = NoState
    /\ refinementContext = NoHint
    /\ iterationInfo = NoIteration
    /\ lastCodeOutput = Null
    /\ lastExecutionOutput = Null
    /\ lastReasoningOutput = Null
    /\ visualizationSpec = "undefined"
    /\ raised = "none"
    /\ calls = <<>>
    /\ useMCP \in BOOLEAN
    /\ mcpConnected = FALSE
    /\ GateIdle
    /\ AgentIdle

\* the chatState literal
ChatState(output) ==
    LET reply == IF output.chatResponse # "undefined" THEN output.chatResponse
                 ELSE DefaultChatReply
    IN  [query |-> userQuery.text,
         schemaMetadata |-> "empty",
         responses |-> <<Response("understanding", output),
                         Response("chat", [message |-> reply])>>,
         finalResult |-> [kind |-> "chat", data |-> "empty", explanation |-> reply,
                          iterations |-> 0, isChat |-> TRUE],
         iterations |-> 0,
         iterationHistory |-> <<>>]

\* one entry of the log of collaborator calls: the operation, the iteration it
\* belongs to, the refinement hint and the catalog snapshot passed (generate
\* only) and the error its result carried ("undefined": none)
CallWith(op, iteration, hint, error, schema) ==
    [op |-> op, iteration |-> iteration, hint |-> hint, error |-> error, schema |-> schema]

Call(op, iteration, hint, error) == CallWith(op, iteration, hint, error, "undefined")

\* a catalog read again from the adapter instead of the snapshot held
SchemaArgumentRefetched(st) == "refetched"

\* the schema argument of 'generate': state.schemaMetadata
SchemaArgument(st) == st.schemaMetadata

ErrorOf(result) == IF result.success THEN "undefined" ELSE result.error

\* the adapter check made before the chat short-circuit
RouteStoreFirst(output, db) ==
    IF ~db THEN "raise"
    ELSE IF ~output.requiresDatabase THEN "chat" ELSE "catalog"

\* where processQuery goes after classification
Route(output, db) ==
    IF ~output.requiresDatabase THEN "chat"
    ELSE IF ~db THEN "raise" ELSE "catalog"

\* Stage 1: classify, then the chat short-circuit or the adapter check
Understand ==
    /\ pc = "understanding"
    /\ \E understandingResult \in ClassifyResults(userQuery) :
        LET output == IF understandingResult.success THEN understandingResult.output
                      ELSE DefaultUnderstanding
        IN  /\ understandingOutput' = output
            /\ calls' = Append(calls, Call("classify", 0, NoHint,
                                           ErrorOf(understandingResult)))
            /\ IF Route(output, dbAdapter) = "chat"
               THEN /\ state' = ChatState(output)
                    /\ pc' = "returned"
                    /\ raised' = raised
               ELSE IF Route(output, dbAdapter) = "raise"
               THEN /\ raised' = NoStore
                    /\ pc' = "raised"
                    /\ state' = state
               ELSE /\ pc' = "catalog"
                    /\ UNCHANGED <<state, raised>>
    /\ UNCHANGED <<cfgMaxIterations, maxIterations, dbAdapter, userQuery, refinementContext,
                   iterationInfo, lastCodeOutput, lastExecutionOutput, lastReasoningOutput,
                   visualizationSpec>>
    /\ UNCHANGED <<gateVars, agentVars>>

\* the state literal: await this.dbAdapter.getSchemaMetadata(), then the
\* understanding response is pushed
FetchCatalog ==
    /\ pc = "catalog"
    /\ \/ \E schema \in Schemas :
            /\ calls' = Append(calls, Call("getSchemaMetadata", 0, NoHint, "undefined"))
            /\ state' = [query |-> userQuery.text, schemaMetadata |-> schema,
                         responses |-> <<Response("understanding", understandingOutput)>>,
                         finalResult |-> Null, iterations |-> 0, iterationHistory |-> <<>>]
            /\ pc' = "generate"
            /\ raised' = raised
       \/ \E e \in CatalogErrors :
            /\ calls' = Append(calls, Call("getSchemaMetadata", 0, NoHint, e))
            /\ raised' = e
            /\ pc' = "raised"
            /\ state' = state
    /\ UNCHANGED <<cfgMaxIterations, maxIterations, dbAdapter, userQuery, understandingOutput,
                   refinementContext, iterationInfo, lastCodeOutput, lastExecutionOutput,
                   lastReasoningOutput, visualizationSpec>>
    /\ UNCHANGED <<gateVars, agentVars>>

\* the entries of state.responses of one stage
ResponsesOf(st, stage) == {i \in DOMAIN st.responses : st.responses[i].stage = stage}

\* the final assembly reading the first ExecutionResult of the query
FinalResultOfFirst(st, execution, reasoning, codeOutput, spec) ==
    LET first == st.responses[Min(ResponsesOf(st, "execution"))].output
    IN  [kind |-> "final",
         data |-> first.data,
         explanation |-> reasoning.explanation,
         executionTime |-> first.executionTime,
         requiresVisualization |-> codeOutput.requiresVisualization,
         visualizationSpec |-> spec,
         iterations |-> st.iterations,
         iterationHistory |-> st.iterationHistory]

\* "Assemble final result"
FinalResult(st, execution, reasoning, codeOutput, spec) ==
    [kind |-> "final",
     data |-> IF execution = Null THEN "undefined" ELSE execution.data,
     explanation |-> IF reasoning = Null THEN "No explanation available"
                     ELSE reasoning.explanation,
     executionTime |-> IF execution = Null THEN 0 ELSE execution.executionTime,
     requiresVisualization |-> IF codeOutput = Null THEN FALSE
                               ELSE codeOutput.requiresVisualization,
     visualizationSpec |-> spec,
     iterations |-> st.iterations,
     iterationHistory |-> st.iterationHistory]

\* the entry put in front of the log instead of after it
PushFirst(st, stage, output) ==
    [st EXCEPT !.responses = <<Response(stage, output)>> \o @]

Push(st, stage, output) ==
    [st EXCEPT !.responses = Append(@, Response(stage, output))]

\* the generation failure retried like an execution failure
GenerationFailedRetry(st, error, hint) ==
    IF st.iterations < maxIterations
    THEN [pc |-> "generate", state |-> st, hint |-> ExecutionHint(error)]
    ELSE [pc |-> "returned",
          state |-> [st EXCEPT !.finalResult = [kind |-> "error", error |-> error]],
          hint |-> hint]

\* if (!codeResult.success) { state.finalResult = { error }; return state; }
GenerationFailed(st, error, hint) ==
    [pc |-> "returned",
     state |-> [st EXCEPT !.finalResult = [kind |-> "error", error |-> error]],
     hint |-> hint]

\* The while test, state.iterations++ and Stage 2: code generation
Generate ==
    /\ pc = "generate"
    /\ IF state.iterations < maxIterations
       THEN LET iteration == state.iterations + 1
                counted == [state EXCEPT !.iterations = iteration]
            IN  /\ iterationInfo' = [iteration |-> iteration,
                                     refinementContext |-> refinementContext,
                                     evaluation |-> NoEvaluation, evaluated |-> FALSE]
                /\ \E codeResult \in GenerateResults(userQuery,
                                                     understandingOutput.shouldVisualize) :
                    LET output == IF codeResult.success THEN codeResult.output
                                  ELSE DefaultCodeOutput
                        pushed == Push(counted, "generation", output)
                    IN  /\ lastCodeOutput' = output
                        /\ calls' = Append(calls, CallWith("generate", iteration,
                                                           refinementContext,
                                                           ErrorOf(codeResult),
                                                           SchemaArgument(state)))
                        /\ IF ~codeResult.success
                           THEN LET next == GenerationFailed(pushed, codeResult.error,
                                                             refinementContext)
                                IN  /\ state' = next.state
                                    /\ pc' = next.pc
                                    /\ refinementContext' = next.hint
                           ELSE /\ state' = pushed
                                /\ pc' = "execute"
                                /\ refinementContext' = refinementContext
                /\ UNCHANGED visualizationSpec
       ELSE \* the while condition is false: fall through to the final assembly
            /\ state' = [state EXCEPT !.finalResult =
                            FinalResult(state, lastExecutionOutput, lastReasoningOutput,
                                        lastCodeOutput, visualizationSpec)]
            /\ pc' = "returned"
            /\ UNCHANGED <<iterationInfo, calls, lastCodeOutput, refinementContext,
                           visualizationSpec>>
    /\ UNCHANGED <<cfgMaxIterations, maxIterations, dbAdapter, userQuery, understandingOutput,
                   lastExecutionOutput, lastReasoningOutput, raised>>
    /\ UNCHANGED <<gateVars, agentVars>>

\* Reason and Evaluate run even though the execution failed
ExecutionFailedIgnored(st, info, output) ==
    [pc |-> "reason", state |-> st, hint |-> refinementContext]

\* the error recorded in finalResult before the retry
ExecutionFailedRecorded(st, info, output) ==
    IF st.iterations < maxIterations
    THEN [pc |-> "generate",
          state |-> [st EXCEPT !.iterationHistory = Append(@, info),
                               !.finalResult = [kind |-> "error", error |-> output.error]],
          hint |-> ExecutionHint(output.error)]
    ELSE [pc |-> "returned",
          state |-> [st EXCEPT !.finalResult = [kind |-> "error", error |-> output.error]],
          hint |-> refinementContext]

\* the abort at the ceiling without the finalResult assignment
ExecutionFailedNoResult(st, info, output) ==
    IF st.iterations < maxIterations
    THEN [pc |-> "generate",
          state |-> [st EXCEPT !.iterationHistory = Append(@, info)],
          hint |-> ExecutionHint(output.error)]
    ELSE [pc |-> "returned", state |-> st, hint |-> refinementContext]

\* the retry without the push of iterationInfo
ExecutionFailedUnlogged(st, info, output) ==
    IF st.iterations < maxIterations
    THEN [pc |-> "generate", state |-> st, hint |-> ExecutionHint(output.error)]
    ELSE [pc |-> "returned",
          state |-> [st EXCEPT !.finalResult = [kind |-> "error", error |-> output.error]],
          hint |-> refinementContext]

\* if (!lastExecutionOutput.success) { ... continue / return }
ExecutionFailed(st, info, output) ==
    IF st.iterations < maxIterations
    THEN [pc |-> "generate",
          state |-> [st EXCEPT !.iterationHistory = Append(@, info)],
          hint |-> ExecutionHint(output.error)]
    ELSE [pc |-> "returned",
          state |-> [st EXCEPT !.finalResult = [kind |-> "error", error |-> output.error]],
          hint |-> refinementContext]

\* Stage 3: execution, through the execute tool of the ExecutionAgent
Execute ==
    /\ pc = "execute"
    /\ \E run \in execute([code |-> lastCodeOutput.code, language |-> lastCodeOutput.language],
                          dbAdapter, useMCP /\ mcpConnected) :
        LET executionResult == StageCall("execution", "execute", TRUE, Returned(run.result))
            output == IF executionResult.success THEN executionResult.output
                      ELSE DefaultExecutionOutput
            pushed == Push(state, "execution", output)
        IN  /\ lastExecutionOutput' = output
            /\ calls' = Append(calls, Call("execute", state.iterations, NoHint,
                                           ErrorOf(output)))
            /\ adapterCalls' = adapterCalls \o run.sent
            /\ evaluated' = IF run.ran THEN Append(evaluated, lastCodeOutput.code)
                            ELSE evaluated
            /\ mcpCalls' = mcpCalls \o run.remote
            /\ execKinds' = Append(execKinds, run.kind)
            /\ IF ~output.success
               THEN LET next == ExecutionFailed(pushed, iterationInfo, output)
                    IN  /\ state' = next.state
                        /\ pc' = next.pc
                        /\ refinementContext' = next.hint
               ELSE /\ state' = pushed
                    /\ pc' = "reason"
                    /\ refinementContext' = refinementContext
    /\ UNCHANGED <<cfgMaxIterations, maxIterations, dbAdapter, userQuery, understandingOutput,
                   iterationInfo, lastCodeOutput, lastReasoningOutput, visualizationSpec,
                   raised, useMCP, mcpConnected>>
    /\ UNCHANGED agentVars

\* Stage 4: reasoning
Reason ==
    /\ pc = "reason"
    /\ \E reasoningResult \in ReasonResults :
        LET output == IF reasoningResult.success THEN reasoningResult.output
                      ELSE DefaultReasoningOutput
        IN  /\ lastReasoningOutput' = output
            /\ calls' = Append(calls, Call("reason", state.iterations, NoHint,
                                           ErrorOf(reasoningResult)))
            /\ state' = Push(state, "reasoning", output)
    /\ pc' = "evaluate"
    /\ UNCHANGED <<cfgMaxIterations, maxIterations, dbAdapter, userQuery, understandingOutput,
                   refinementContext, iterationInfo, lastCodeOutput, lastExecutionOutput,
                   visualizationSpec, raised>>
    /\ UNCHANGED <<gateVars, agentVars>>

\* the budget test off by one
LoopExitsEarly(evaluationOutput, iterations, ceiling) ==
    evaluationOutput.satisfiesQuery \/ iterations >= ceiling - 1

\* if (evaluationOutput.satisfiesQuery || state.iterations >= this.maxIterations)
LoopExits(evaluationOutput, iterations, ceiling) ==
    evaluationOutput.satisfiesQuery \/ iterations >= ceiling

\* a chart for every query that asked for one, whatever the result set
ChartWantedWhenAsked(understanding, execution) == understanding.shouldVisualize

\* if (understandingOutput.shouldVisualize && lastExecutionOutput?.data &&
\*     lastExecutionOutput.data.length > 0)
ChartWanted(understanding, execution) ==
    understanding.shouldVisualize /\ execution.data = "rows"

\* Stage 5: evaluation, and the loop control that follows it
Evaluate ==
    /\ pc = "evaluate"
    /\ \E evaluationResult \in EvaluateResults :
        LET evaluationOutput == IF evaluationResult.success THEN evaluationResult.output
                                ELSE DefaultEvaluation
            info == [iterationInfo EXCEPT !.evaluation = evaluationOutput,
                                          !.evaluated = TRUE]
            logged == [state EXCEPT !.iterationHistory = Append(@, info)]
        IN  /\ iterationInfo' = info
            /\ calls' = Append(calls, Call("evaluate", state.iterations, NoHint,
                                           ErrorOf(evaluationResult)))
            /\ IF LoopExits(evaluationOutput, state.iterations, maxIterations)
               THEN IF ChartWanted(understandingOutput, lastExecutionOutput)
                    THEN /\ state' = logged
                         /\ pc' = "chart"
                         /\ refinementContext' = refinementContext
                    ELSE /\ state' = [logged EXCEPT !.finalResult =
                                        FinalResult(logged, lastExecutionOutput,
                                                    lastReasoningOutput, lastCodeOutput,
                                                    visualizationSpec)]
                         /\ pc' = "returned"
                         /\ refinementContext' = refinementContext
               ELSE /\ state' = logged
                    /\ refinementContext' = EvaluationHint(evaluationOutput)
                    /\ pc' = "generate"
    /\ UNCHANGED <<cfgMaxIterations, maxIterations, dbAdapter, userQuery, understandingOutput,
                   lastCodeOutput, lastExecutionOutput, lastReasoningOutput,
                   visualizationSpec, raised>>
    /\ UNCHANGED <<gateVars, agentVars>>

\* Stage 6: chart generation, then the break and the final assembly
Chart ==
    /\ pc = "chart"
    /\ \E chartResult \in ChartResults :
        LET spec == IF chartResult.success THEN chartResult.output.visualizationSpec
                    ELSE visualizationSpec
        IN  /\ visualizationSpec' = spec
            /\ calls' = Append(calls, Call("generateChart", state.iterations, NoHint,
                                           ErrorOf(chartResult)))
            /\ state' = [state EXCEPT !.finalResult =
                            FinalResult(state, lastExecutionOutput, lastReasoningOutput,
                                        lastCodeOutput, spec)]
    /\ pc' = "returned"
    /\ UNCHANGED <<cfgMaxIterations, maxIterations, dbAdapter, userQuery, understandingOutput,
                   refinementContext, iterationInfo, lastCodeOutput, lastExecutionOutput,
                   lastReasoningOutput, raised>>
    /\ UNCHANGED <<gateVars, agentVars>>

Next ==
    \/ Understand
    \/ FetchCatalog
    \/ Generate
    \/ Execute
    \/ Reason
    \/ Evaluate
    \/ Chart

Spec == Init /\ [][Next]_vars

\* every await of processQuery settles: no collaborator call hangs
LiveSpec == Spec /\ WF_vars(Next)

----------------------------------------------------------------------------
(* The execution gate on its own: one execute() call on an enumerated text *)

\* atoms of the enumerated declarative statements
SQLAlphabet == {"DROP", "dRoP", "TABLE", "tAbLe", "Truncate", " ", "\n", "t", "/**/", "SELECT"}

\* longer statements, one or more for each entry of forbiddenPatterns
SQLSamples ==
    { <<"SELECT", " ", "t", " ", "LIMIT">>,
      <<"drop", " ", "\n", "database", " ", "t">>,
      <<"SELECT", ";", "Delete", "\t", "From", " ", "t">>,
      <<"alter", " ", "tAbLe", " ", "t">>,
      <<"create", "\n", "table", " ", "t">>,
      <<"Insert", " ", "into", " ", "t">>,
      <<"Update", " ", "t", " ", "set", " ", "x", "=", "x">>,
      <<"update", "\n", "t", "\n", "SET", " ", "x", "=", "x">>,
      <<"grant", " ", "t">>,
      <<"Revoke", " ", "t">> }

\* atoms of the enumerated transformation scripts
JSAlphabet == {"process", "Buffer", "ed", ".", "...", "$", " "}

JSSamples ==
    { <<"return", " ", "fetchData", "(", "'", "SELECT", " ", "t", "'", ")">>,
      <<"return", " ", "fetchData", "(", "'", "DELETE", " ", "FROM", " ", "t", "'", ")">>,
      <<"return", " ", "sql", "<backtick>", "dRoP", " ", "TABLE", " ", "t", "<backtick>">>,
      <<"return", " ", "[", "...", "Buffer", ".", "from", "(", "'", "t", "'", ")", "]">>,
      <<"return", " ", "row", ".", "process", "ed">>,
      <<"return", " ", "eval", "(", "'", "t", "'", ")">> }

GateInputs ==
    [code : BoundedSeq(SQLAlphabet, MaxCodeLen) \cup SQLSamples, language : {"sql"}]
    \cup [code : BoundedSeq(JSAlphabet, MaxCodeLen) \cup JSSamples,
          language : {"javascript"}]

\* an ExecutionAgent built by the orchestrator's constructor, about to
\* handle one execute tool call; lastCodeOutput holds the call's input
GateInit ==
    /\ pc = "gate"
    /\ \E input \in GateInputs :
        lastCodeOutput = [code |-> input.code, language |-> input.language,
                          requiresVisualization |-> FALSE]
    /\ dbAdapter \in BOOLEAN
    /\ useMCP \in BOOLEAN
    /\ mcpConnected = FALSE
    /\ cfgMaxIterations = 0
    /\ maxIterations = ConfiguredMaxIterations(0)
    /\ userQuery \in {q \in Queries : q.isString}
    /\ understandingOutput = DefaultUnderstanding
    /\ state = NoState
    /\ refinementContext = NoHint
    /\ iterationInfo = NoIteration
    /\ lastExecutionOutput = Null
    /\ lastReasoningOutput = Null
    /\ visualizationSpec = "undefined"
    /\ raised = "none"
    /\ calls = <<>>
    /\ GateIdle
    /\ AgentIdle

\* the handler of the execute tool: execute(input)
GateExecute ==
    /\ pc = "gate"
    /\ \E run \in execute([code |-> lastCodeOutput.code, language |-> lastCodeOutput.language],
                          dbAdapter, useMCP /\ mcpConnected) :
        /\ lastExecutionOutput' = run.result
        /\ adapterCalls' = adapterCalls \o run.sent
        /\ evaluated' = IF run.ran THEN Append(evaluated, lastCodeOutput.code) ELSE evaluated
        /\ mcpCalls' = mcpCalls \o run.remote
        /\ execKinds' = Append(execKinds, run.kind)
    /\ pc' = "gateDone"
    /\ UNCHANGED <<cfgMaxIterations, maxIterations, dbAdapter, userQuery, understandingOutput,
                   state, refinementContext, iterationInfo, lastCodeOutput,
                   lastReasoningOutput, visualizationSpec, raised, calls, useMCP,
                   mcpConnected>>
    /\ UNCHANGED agentVars

GateNext == GateExecute

GateSpec == GateInit /\ [][GateNext]_vars

-----------------------------------------------------------------------------
(* The execution gate of an orchestrator whose owner calls connectMCP()    *)
(* before the execute() call                                                *)

\* connectMCP() settles having connected: setMCPClient hands the agent the
\* client and the server id, and isConnected(serverId) holds from then on.
\* (A rejected connect leaves the agent as it was.)
GateConnectMCP ==
    /\ pc = "gate"
    /\ ~mcpConnected
    /\ mcpConnected' = TRUE
    /\ UNCHANGED <<pc, cfgMaxIterations, maxIterations, dbAdapter, userQuery,
                   understandingOutput, state, refinementContext, iterationInfo,
                   lastCodeOutput, lastExecutionOutput, lastReasoningOutput,
                   visualizationSpec, raised, calls, useMCP, adapterCalls, evaluated,
                   mcpCalls, execKinds>>
    /\ UNCHANGED agentVars

McpGateNext ==
    \/ GateConnectMCP
    \/ GateExecute

McpGateSpec == GateInit /\ [][McpGateNext]_vars

----------------------------------------------------------------------------
(* An Agent on its own: a sequence of executeTool calls *)

AgentName == "execution"

\* tools a subclass registers: a name, and whether it declares an outputSchema
ToolDefs == { [name |-> "execute", outputSchema |-> FALSE],
              [name |-> "classify", outputSchema |-> TRUE] }

ToolNames == {"execute", "classify", "unknown"}

\* a handler returns "value", which an output schema accepts, or "malformed",
\* which it rejects, or throws
HandlerOutcomes ==
    {Returned("value"), Returned("malformed"), ThrewError("connect ECONNREFUSED"),
     ThrewValue}

\* the constructor: registerTools() has filled this.tools
AgentInit ==
    /\ pc = "agent"
    /\ tools \in SUBSET ToolDefs
    /\ now = 0
    /\ toolRuns = <<>>
    /\ handlerCalls = 0
    /\ pending = Null
    /\ orchestrators = <<>>
    /\ mcpClientInstance = Null
    /\ schemaCache = <<>>
    /\ adapters = <<>>
    /\ loopRun = Null
    /\ stdio = Null
    /\ cfgMaxIterations = 0
    /\ maxIterations = ConfiguredMaxIterations(0)
    /\ dbAdapter = FALSE
    /\ userQuery \in {q \in Queries : q.isString}
    /\ understandingOutput = DefaultUnderstanding
    /\ state = NoState
    /\ refinementContext = NoHint
    /\ iterationInfo = NoIteration
    /\ lastCodeOutput = Null
    /\ lastExecutionOutput = Null
    /\ lastReasoningOutput = Null
    /\ visualizationSpec = "undefined"
    /\ raised = "none"
    /\ calls = <<>>
    /\ useMCP = FALSE
    /\ mcpConnected = FALSE
    /\ GateIdle

\* one executeTool(toolName, input) call; the clock advances by elapsed
\* while it runs
ExecuteTool ==
    /\ pc = "agent"
    /\ Len(toolRuns) < MaxToolRuns
    /\ \E toolName \in ToolNames, inputValid \in BOOLEAN,
          handler \in HandlerOutcomes, elapsed \in 0..1 :
        LET registered == \E t \in tools : t.name = toolName
            outputSchema == \E t \in tools : t.name = toolName /\ t.outputSchema
            outputValid == outputSchema => handler.output = "value"
            startTime == now
            endTime == now + elapsed
            run == executeTool(AgentName, toolName, registered, inputValid, outputValid,
                               handler, startTime, endTime)
        IN  /\ endTime <= MaxClock
            /\ now' = endTime
            /\ toolRuns' = Append(toolRuns,
                                  [toolName |-> toolName, registered |-> registered,
                                   inputValid |-> inputValid, handler |-> handler,
                                   outputSchema |-> outputSchema,
                                   startTime |-> startTime, threw |-> run.threw,
                                   handlerInvoked |-> run.handlerInvoked,
                                   result |-> run.result])
            /\ handlerCalls' = handlerCalls + (IF run.handlerInvoked THEN 1 ELSE 0)
    /\ UNCHANGED <<tools, pending, orchestrators, mcpClientInstance, schemaCache, adapters,
                   loopRun, stdio,
                   orchVars, dbAdapter,
                   gateVars>>

AgentNext == ExecuteTool

AgentSpec == AgentInit /\ [][AgentNext]_vars

----------------------------------------------------------------------------
(* An agent handling one tool call *)

\* the tools of the five agents, with the agent that registers each and whether
\* it declares an outputSchema
HandlerTools ==
    { [name |-> "classify", agent |-> "query-understanding", outputSchema |-> TRUE],
      [name |-> "generate", agent |-> "code-generation", outputSchema |-> FALSE],
      [name |-> "reason", agent |-> "reasoning", outputSchema |-> FALSE],
      [name |-> "evaluate", agent |-> "reasoning", outputSchema |-> FALSE],
      [name |-> "generateChart", agent |-> "chart-generation", outputSchema |-> FALSE] }

\* the handler of a tool, run on its input with the LLM answering `response`
Handle(toolName, input, response) ==
    CASE toolName = "classify" -> classify(input, response)
      [] toolName = "generate" -> generate(input, response)
      [] toolName = "reason" -> reason(input, response)
      [] toolName = "evaluate" -> evaluate(input, response)
      [] toolName = "generateChart" -> generateChart(input, response)

\* the atoms completions are enumerated over, and longer completions
CompletionAlphabet == {"<fence>", "sql", "SELECT", "rate_limit", " ", "{", "}"}

CompletionSamples ==
    { <<"<fence>", "sql", "\n", "SELECT", " ", "t", " ", "LIMIT", " ", "10", "\n", "<fence>">>,
      <<"<fence>", "sql", "\n", "SELECT", " ", "rate_limit", " ", "FROM", " ", "t", ";",
        "\n", "<fence>">>,
      <<"<fence>", "\n", "select", " ", "t", "\n", "<fence>">>,
      <<"<fence>", "javascript", "\n", "return", " ", "fetchData", "(", "'", "SELECT",
        " ", "t", "'", ")", "\n", "<fence>">>,
      <<"Here", " ", "it", " ", "is", ":", " ", "{", "unsatisfied", "}">>,
      <<"{", "satisfied", "}">>,
      <<"<fence>", "json", "\n", "{", "classification", "}", "\n", "<fence>">>,
      <<"{", "chart", "}">>,
      <<"{", "satisfied">> }

Completions ==
    {Completion(c) : c \in BoundedSeq(CompletionAlphabet, MaxCodeLen) \cup CompletionSamples}
    \cup {Rejection(e) : e \in LLMErrors}

\* the configured row ceilings a generate call is given
MaxRowsInputs == {"undefined", "100"}

\* the inputs of the declared shape a tool is called with: classify reads the
\* query, generate the row ceiling and the visualization flag
ToolInputs(toolName) ==
    CASE toolName = "classify" ->
            [query : ToolQueries, maxRows : {"undefined"}, requiresVisualization : {FALSE}]
      [] toolName = "generate" ->
            [query : {"how many rows"}, maxRows : MaxRowsInputs,
             requiresVisualization : BOOLEAN]
      [] OTHER ->
            [query : {"how many rows"}, maxRows : {"undefined"},
             requiresVisualization : {FALSE}]

\* an agent about to be asked for one tool call
HandlerInit ==
    /\ pc = "handler"
    /\ \E tool \in HandlerTools, response \in Completions :
          \E input \in ToolInputs(tool.name) :
              pending = [tool |-> tool, input |-> input, response |-> response]
    /\ tools = {[name |-> pending.tool.name, outputSchema |-> pending.tool.outputSchema]}
    /\ now = 0
    /\ toolRuns = <<>>
    /\ handlerCalls = 0
    /\ orchestrators = <<>>
    /\ mcpClientInstance = Null
    /\ schemaCache = <<>>
    /\ adapters = <<>>
    /\ loopRun = Null
    /\ stdio = Null
    /\ cfgMaxIterations = 0
    /\ maxIterations = ConfiguredMaxIterations(0)
    /\ dbAdapter = FALSE
    /\ userQuery \in {q \in Queries : q.isString}
    /\ understandingOutput = DefaultUnderstanding
    /\ state = NoState
    /\ refinementContext = NoHint
    /\ iterationInfo = NoIteration
    /\ lastCodeOutput = Null
    /\ lastExecutionOutput = Null
    /\ lastReasoningOutput = Null
    /\ visualizationSpec = "undefined"
    /\ raised = "none"
    /\ calls = <<>>
    /\ useMCP = FALSE
    /\ mcpConnected = FALSE
    /\ GateIdle

\* executeTool(pending.tool.name, pending.input): the input is of the declared
\* shape, the handler awaits the completion and works on it
HandleTool ==
    /\ pc = "handler"
    /\ toolRuns = <<>>
    /\ LET handler == Handle(pending.tool.name, pending.input, pending.response)
           run == executeTool(pending.tool.agent, pending.tool.name, TRUE, TRUE, TRUE,
                              handler, now, now)
       IN  /\ toolRuns' = <<[toolName |-> pending.tool.name, registered |-> TRUE,
                             inputValid |-> TRUE, handler |-> handler,
                             outputSchema |-> pending.tool.outputSchema,
                             startTime |-> now, threw |-> run.threw,
                             handlerInvoked |-> run.handlerInvoked,
                             result |-> run.result]>>
           /\ handlerCalls' = handlerCalls + (IF run.handlerInvoked THEN 1 ELSE 0)
    /\ pc' = "handled"
    /\ UNCHANGED <<tools, now, pending, orchestrators, mcpClientInstance, schemaCache,
                   adapters, loopRun, stdio, cfgMaxIterations, maxIterations, dbAdapter,
                   understandingOutput, state, refinementContext, iterationInfo,
                   lastCodeOutput, lastExecutionOutput, lastReasoningOutput,
                   visualizationSpec, raised, calls, userQuery, gateVars>>

HandlerNext == HandleTool

HandlerSpec == HandlerInit /\ [][HandlerNext]_vars

----------------------------------------------------------------------------
(* Several callers, each with an AgentOrchestrator of its own *)

MaxCallers == 2        \* orchestrators alive in the process at once

Callers == 1..MaxCallers

DefaultServerId == "code-execution"

\* the servers an mcpServerConfig can name; "npx" is the one the constructor
\* falls back on
McpServers == {"npx", "custom"}

\* config.mcpServerConfig || { id: 'code-execution', ... }
McpServerConfigs == [id : {DefaultServerId}, server : McpServers]

\* new AgentOrchestrator(llm, config): the MCP fields of the instance and of
\* its ExecutionAgent; serverConfig is Null when neither config.useMCP nor
\* USE_MCP_EXECUTION asks for MCP
NewOrchestrator(serverConfig) ==
    [pc |-> "constructed", mcpServerConfig |-> serverConfig, mcpClient |-> "null",
     mcpServerId |-> "null", connection |-> Null, executedOn |-> Null]

\* new MCPStdioConnection(server.config), opened by orchestrator q
Connection(q, serverConfig) == [openedBy |-> q, server |-> serverConfig.server]

\* new MCPClient(): connections = new Map()
NewMCPClient == [connections |-> [id \in {DefaultServerId} |-> Null]]

\* getMCPClient()
getMCPClient == IF mcpClientInstance = Null THEN NewMCPClient ELSE mcpClientInstance

\* USE_MCP_EXECUTION is set; every caller has constructed its orchestrator
CallersInit ==
    /\ pc = "callers"
    /\ orchestrators \in [Callers -> {NewOrchestrator(c) : c \in McpServerConfigs \cup {Null}}]
    /\ mcpClientInstance = Null
    /\ schemaCache = <<>>
    /\ adapters = <<>>
    /\ loopRun = Null
    /\ stdio = Null
    /\ useMCP \in BOOLEAN
    /\ mcpConnected = FALSE
    /\ tools = {}
    /\ now = 0
    /\ toolRuns = <<>>
    /\ handlerCalls = 0
    /\ pending = Null
    /\ cfgMaxIterations = 0
    /\ maxIterations = ConfiguredMaxIterations(0)
    /\ dbAdapter = TRUE
    /\ userQuery \in {q \in Queries : q.isString}
    /\ understandingOutput = DefaultUnderstanding
    /\ state = NoState
    /\ refinementContext = NoHint
    /\ iterationInfo = NoIteration
    /\ lastCodeOutput = Null
    /\ lastExecutionOutput = Null
    /\ lastReasoningOutput = Null
    /\ visualizationSpec = "undefined"
    /\ raised = "none"
    /\ calls = <<>>
    /\ adapterCalls = <<>>
    /\ evaluated = <<>>
    /\ mcpCalls = <<>>
    /\ execKinds = <<>>

CallersFrame ==
    UNCHANGED <<pc, useMCP, mcpConnected, tools, now, toolRuns, handlerCalls, pending,
                schemaCache, adapters, loopRun, stdio,
                cfgMaxIterations, maxIterations, dbAdapter, userQuery, understandingOutput,
                state, refinementContext, iterationInfo, lastCodeOutput,
                lastExecutionOutput, lastReasoningOutput, visualizationSpec, raised, calls,
                adapterCalls, evaluated, mcpCalls, execKinds>>

\* connectMCP() up to the await inside MCPClient.connect: the client is the
\* singleton; a server id already in its map ends the call at once, otherwise
\* a connection is created and connection.connect() awaited
ConnectMCP(q) ==
    LET o == orchestrators[q]
        client == getMCPClient
    IN  /\ o.pc = "constructed"
        /\ o.mcpServerConfig # Null
        /\ mcpClientInstance' = client
        /\ IF client.connections[o.mcpServerConfig.id] # Null
           THEN orchestrators' =
                    [orchestrators EXCEPT ![q] =
                        [o EXCEPT !.pc = "connected", !.mcpClient = "singleton",
                                  !.mcpServerId = o.mcpServerConfig.id]]
           ELSE orchestrators' =
                    [orchestrators EXCEPT ![q] =
                        [o EXCEPT !.pc = "connecting", !.mcpClient = "singleton",
                                  !.connection = Connection(q, o.mcpServerConfig)]]
        /\ CallersFrame

\* connection.connect() has settled: this.connections.set(server.id,
\* connection), then mcpServerId and executionAgent.setMCPClient
ConnectMCPSettles(q) ==
    LET o == orchestrators[q]
    IN  /\ o.pc = "connecting"
        /\ mcpClientInstance' =
                [mcpClientInstance EXCEPT !.connections[o.mcpServerConfig.id] = o.connection]
        /\ orchestrators' =
                [orchestrators EXCEPT ![q] =
                    [o EXCEPT !.pc = "connected", !.mcpServerId = o.mcpServerConfig.id]]
        /\ CallersFrame

\* processQuery(userQuery) up to the end of its Execute stage: execute()
\* delegates to the server registered under mcpServerId when useMCP is set and
\* the client holds a connection for it, and runs locally otherwise
ProcessQuery(q) ==
    LET o == orchestrators[q]
        delegated == /\ useMCP
                     /\ o.mcpClient # "null"
                     /\ o.mcpServerId # "null"
                     /\ mcpClientInstance.connections[o.mcpServerId] # Null
    IN  /\ o.pc \in {"constructed", "connected"}
        /\ orchestrators' =
                [orchestrators EXCEPT ![q] =
                    [o EXCEPT !.pc = "returned",
                              !.executedOn =
                                  IF delegated
                                  THEN mcpClientInstance.connections[o.mcpServerId]
                                  ELSE [openedBy |-> q, server |-> "local"]]]
        /\ UNCHANGED mcpClientInstance
        /\ CallersFrame

CallersNext ==
    \E q \in Callers : ConnectMCP(q) \/ ConnectMCPSettles(q) \/ ProcessQuery(q)

CallersSpec == CallersInit /\ [][CallersNext]_vars

-----------------------------------------------------------------------------
(* The catalog cache: PostgreSQLAdapter.getSchemaMetadata of several       *)
(* callers over the module's schemaCache.  The clock advances in steps of  *)
(* half a TTL.                                                              *)

SCHEMA_CACHE_TTL == 5 * 60 * 1000

ClockStep == SCHEMA_CACHE_TTL \div 2

DateNow == now * ClockStep

ConfigHashes == {"db1", "db2"}

\* getConfigHash(config): host:port:database:user, held as one value.
getConfigHash(config) == config

\* getCachedSchema(config): the schema of an entry younger than the TTL.
getCachedSchema(config) ==
    LET entry == schemaCache[getConfigHash(config)]
    IN  IF entry # Null /\ DateNow - entry.timestamp < SCHEMA_CACHE_TTL
        THEN entry.schema
        ELSE Null

\* setCachedSchema(config, schema): schemaCache.set(hash, {schema, timestamp}).
setCachedSchema(config, schema) ==
    [schemaCache EXCEPT ![getConfigHash(config)] =
        [schema |-> schema, timestamp |-> DateNow]]

NewAdapter(config) == [config |-> config, pc |-> "idle", result |-> Null]

CatalogInit ==
    /\ pc = "catalog"
    /\ cfgMaxIterations = 0
    /\ maxIterations = 0
    /\ dbAdapter = FALSE
    /\ understandingOutput = Null
    /\ state = NoState
    /\ refinementContext = NoHint
    /\ iterationInfo = NoIteration
    /\ lastCodeOutput = Null
    /\ lastExecutionOutput = Null
    /\ lastReasoningOutput = Null
    /\ visualizationSpec = "undefined"
    /\ raised = "none"
    /\ calls = <<>>
    /\ userQuery = Null
    /\ useMCP = FALSE
    /\ mcpConnected = FALSE
    /\ GateIdle
    /\ tools = {}
    /\ now = 0
    /\ toolRuns = <<>>
    /\ handlerCalls = 0
    /\ pending = Null
    /\ orchestrators = <<>>
    /\ mcpClientInstance = Null
    /\ schemaCache = [h \in ConfigHashes |-> Null]
    /\ adapters \in [Callers -> {NewAdapter(h) : h \in ConfigHashes}]
    /\ loopRun = Null
    /\ stdio = Null

CatalogFrame ==
    UNCHANGED <<orchVars, dbAdapter, userQuery, gateVars, tools, toolRuns, handlerCalls,
                pending, orchestrators, mcpClientInstance, loopRun, stdio>>

\* Time passes between the steps of the callers.
CatalogTick ==
    /\ pc = "catalog"
    /\ now < MaxClock
    /\ now' = now + 1
    /\ UNCHANGED <<schemaCache, adapters>>
    /\ CatalogFrame

\* getSchemaMetadata() up to its await: a cache hit returns the cached
\* schema, a miss starts the fetch.
GetSchemaMetadata(q) ==
    /\ pc = "catalog"
    /\ adapters[q].pc # "fetching"
    /\ LET cached == getCachedSchema(adapters[q].config)
       IN  adapters' = [adapters EXCEPT ![q] =
               IF cached # Null
               THEN [@ EXCEPT !.pc = "returned", !.result = cached]
               ELSE [@ EXCEPT !.pc = "fetching", !.result = Null]]
    /\ UNCHANGED <<schemaCache, now>>
    /\ CatalogFrame

\* The awaited withConnection settles: a rejection leaves getSchemaMetadata
\* by the exception, a schema is cached and returned.
FetchSettles(q) ==
    /\ pc = "catalog"
    /\ adapters[q].pc = "fetching"
    /\ \E ok \in BOOLEAN :
        IF ok
        THEN LET schema == [tables |-> "schema", lastUpdated |-> DateNow]
             IN  /\ schemaCache' = setCachedSchema(adapters[q].config, schema)
                 /\ adapters' = [adapters EXCEPT ![q].pc = "returned",
                                                 ![q].result = schema]
        ELSE /\ adapters' = [adapters EXCEPT ![q].pc = "threw"]
             /\ UNCHANGED schemaCache
    /\ UNCHANGED now
    /\ CatalogFrame

CatalogNext ==
    \/ CatalogTick
    \/ \E q \in Callers : GetSchemaMetadata(q)
    \/ \E q \in Callers : FetchSettles(q)

CatalogSpec == CatalogInit /\ [][CatalogNext]_vars

-----------------------------------------------------------------------------
(* AgentLoop.run: one call on a loop of configured stages.  What the       *)
(* mappers, the callbacks and the tool of a stage do is chosen when the    *)
(* stage is reached.                                                        *)

MaxStages == 2         \* stages in the loop's configuration

LoopStages == 1..MaxStages

\* what a mapper or a callback throws: an Error with a message, one with an
\* empty message, or a value that is no Error
Throwables == {ThrewError("boom"), ThrewError(""), ThrewValue}

Returns == Returned("undefined")

\* stage.skipCondition?.(state)
SkipConditions == {Null, Returned(FALSE), Returned(TRUE)} \cup Throwables

\* an optional mapper or callback: absent, returning, or throwing
OptionalCalls == {Null, Returns} \cup Throwables

\* stage.inputMapper(state)
InputMappers == {Returns} \cup Throwables

\* await stage.agent.executeTool(stage.toolName, input)
StageToolResults ==
    { executeTool("agent", "tool", registered, inputValid, TRUE, handler, 0, 0).result :
        registered \in BOOLEAN, inputValid \in BOOLEAN,
        handler \in {Returned("output"), Returned("undefined")} \cup Throwables }

Throws(call) == call # Null /\ call.kind # "return"

\* error instanceof Error ? error : new Error('Unknown error'), then .message
CaughtMessage(thrown) ==
    IF thrown.kind = "throwError" THEN thrown.message ELSE "Unknown error"

\* !value for a string or undefined
Falsy(value) == value \in {"undefined", ""}

\* an entry of the record of what run() did: the tool of a stage ran and
\* returned, or a mapper or callback of the stage threw
Ran(stage, result) == [stage |-> stage, kind |-> "tool", success |-> result.success]
Threw(stage) == [stage |-> stage, kind |-> "threw", success |-> FALSE]

\* the result pushed by the catch clause
CaughtResult(message) ==
    [success |-> FALSE, output |-> "undefined", error |-> message, executionTime |-> 0,
     agentName |-> "agent", timestamp |-> 0]

NewLoopRun ==
    [status |-> "running", next |-> 1, broken |-> FALSE, error |-> "undefined",
     stageResults |-> <<>>, events |-> <<>>, success |-> FALSE]

LoopInit ==
    /\ pc = "loop"
    /\ cfgMaxIterations = 0
    /\ maxIterations = 0
    /\ dbAdapter = FALSE
    /\ understandingOutput = Null
    /\ state = NoState
    /\ refinementContext = NoHint
    /\ iterationInfo = NoIteration
    /\ lastCodeOutput = Null
    /\ lastExecutionOutput = Null
    /\ lastReasoningOutput = Null
    /\ visualizationSpec = "undefined"
    /\ raised = "none"
    /\ calls = <<>>
    /\ userQuery = Null
    /\ useMCP = FALSE
    /\ mcpConnected = FALSE
    /\ GateIdle
    /\ tools = {}
    /\ now = 0
    /\ toolRuns = <<>>
    /\ handlerCalls = 0
    /\ pending = Null
    /\ orchestrators = <<>>
    /\ mcpClientInstance = Null
    /\ schemaCache = <<>>
    /\ adapters = <<>>
    /\ loopRun = NewLoopRun
    /\ stdio = Null

LoopFrame ==
    UNCHANGED <<pc, orchVars, dbAdapter, userQuery, gateVars, tools, now, toolRuns,
                handlerCalls, pending, orchestrators, mcpClientInstance, schemaCache,
                adapters, stdio>>

\* the catch clause: onError, state.error, the failure pushed, break
LoopCatch(run, stage, thrown, onError) ==
    IF Throws(onError)
    THEN [run EXCEPT !.status = "rejected", !.events = Append(@, Threw(stage))]
    ELSE [run EXCEPT !.error = CaughtMessage(thrown),
                     !.stageResults = Append(@, CaughtResult(CaughtMessage(thrown))),
                     !.events = Append(@, Threw(stage)),
                     !.broken = TRUE]

\* the try block from the push of the tool's result on
LoopAfterTool(run, stage, result, outputMapper, onStageComplete, onError) ==
    LET stored == [run EXCEPT !.stageResults = Append(@, result),
                              !.events = Append(@, Ran(stage, result))]
    IN  IF result.success /\ result.output # "undefined" /\ Throws(outputMapper)
        THEN LoopCatch(stored, stage, outputMapper, onError)
        ELSE IF Throws(onStageComplete)
        THEN LoopCatch(stored, stage, onStageComplete, onError)
        ELSE IF ~result.success
        THEN [stored EXCEPT !.error = result.error, !.broken = TRUE]
        ELSE [stored EXCEPT !.next = @ + 1]

\* one pass of the for loop over config.stages
LoopStage ==
    /\ pc = "loop"
    /\ loopRun.status = "running"
    /\ ~loopRun.broken
    /\ loopRun.next \in LoopStages
    /\ \E skipCondition \in SkipConditions, onStageStart \in OptionalCalls,
          inputMapper \in InputMappers, result \in StageToolResults,
          outputMapper \in OptionalCalls, onStageComplete \in OptionalCalls,
          onError \in OptionalCalls :
        LET stage == loopRun.next
        IN  loopRun' =
                IF Throws(skipCondition)
                THEN [loopRun EXCEPT !.status = "rejected",
                                     !.events = Append(@, Threw(stage))]
                ELSE IF skipCondition = Returned(TRUE)
                THEN [loopRun EXCEPT !.next = @ + 1]
                ELSE IF Throws(onStageStart)
                THEN [loopRun EXCEPT !.status = "rejected",
                                     !.events = Append(@, Threw(stage))]
                ELSE IF Throws(inputMapper)
                THEN LoopCatch(loopRun, stage, inputMapper, onError)
                ELSE LoopAfterTool(loopRun, stage, result, outputMapper, onStageComplete,
                                   onError)
    /\ LoopFrame

\* return { success: !state.error, state, stages: stageResults, ... }
LoopReturn ==
    /\ pc = "loop"
    /\ loopRun.status = "running"
    /\ loopRun.broken \/ loopRun.next \notin LoopStages
    /\ loopRun' = [loopRun EXCEPT !.status = "returned", !.success = Falsy(loopRun.error)]
    /\ LoopFrame

LoopNext ==
    \/ LoopStage
    \/ LoopReturn

LoopSpec == LoopInit /\ [][LoopNext]_vars

-----------------------------------------------------------------------------
(* MCPStdioConnection: one connection whose server process has been        *)
(* spawned; requests, the lines the server writes, write callbacks,        *)
(* timers, the close event and disconnect()                                *)

MaxRequests == 2       \* sendRequest calls on the connection

\* ids a line of the server may carry: those of requests and one more
LineIds == 1..(MaxRequests + 1)

\* a JSON-RPC line on stdout: a result or an error for an id
Line(id, isError) == [id |-> id, isError |-> isError]

Lines == {Line(id, e) : id \in LineIds, e \in BOOLEAN}

\* the promise sendRequest returns, its write callback and its timer
NewRequest == [promise |-> "pending", settledBy |-> "none", settleCalls |-> 0,
               write |-> "queued", timer |-> TRUE]

\* pending.resolve / pending.reject: only the first call settles the promise
Settle(request, outcome, cause) ==
    [request EXCEPT !.settleCalls = @ + 1,
                    !.promise = IF request.promise = "pending" THEN outcome ELSE @,
                    !.settledBy = IF request.promise = "pending" THEN cause ELSE @]

NewConnection ==
    [process |-> "spawned", closeDue |-> FALSE, requestId |-> 0, pendingRequests |-> {},
     requests |-> <<>>, wire |-> Null]

\* the body of handleData's loop without pendingRequests.delete
handleLineKeeping(conn, line) ==
    IF line.id \in conn.pendingRequests
    THEN [conn EXCEPT !.requests[line.id] =
                        Settle(@, IF line.isError THEN "rejected" ELSE "resolved",
                               "response")]
    ELSE conn

\* the body of handleData's loop for one parsed line
handleLine(conn, line) ==
    IF line.id \in conn.pendingRequests
    THEN [conn EXCEPT !.pendingRequests = @ \ {line.id},
                      !.requests[line.id] =
                        Settle(@, IF line.isError THEN "rejected" ELSE "resolved",
                               "response")]
    ELSE conn

\* cleanup(): every pending promise rejected, the map cleared, process = null
cleanup(conn) ==
    [conn EXCEPT !.requests = [id \in DOMAIN @ |->
                                  IF id \in conn.pendingRequests
                                  THEN Settle(@[id], "rejected", "close")
                                  ELSE @[id]],
                 !.pendingRequests = {},
                 !.process = "null"]

StdioInit ==
    /\ pc = "stdio"
    /\ cfgMaxIterations = 0
    /\ maxIterations = 0
    /\ dbAdapter = FALSE
    /\ understandingOutput = Null
    /\ state = NoState
    /\ refinementContext = NoHint
    /\ iterationInfo = NoIteration
    /\ lastCodeOutput = Null
    /\ lastExecutionOutput = Null
    /\ lastReasoningOutput = Null
    /\ visualizationSpec = "undefined"
    /\ raised = "none"
    /\ calls = <<>>
    /\ userQuery = Null
    /\ useMCP = FALSE
    /\ mcpConnected = FALSE
    /\ GateIdle
    /\ tools = {}
    /\ now = 0
    /\ toolRuns = <<>>
    /\ handlerCalls = 0
    /\ pending = Null
    /\ orchestrators = <<>>
    /\ mcpClientInstance = Null
    /\ schemaCache = <<>>
    /\ adapters = <<>>
    /\ loopRun = Null
    /\ stdio = NewConnection

StdioFrame ==
    UNCHANGED <<pc, orchVars, dbAdapter, userQuery, gateVars, tools, now, toolRuns,
                handlerCalls, pending, orchestrators, mcpClientInstance, schemaCache,
                adapters, loopRun>>

\* sendRequest(method, params) on a connection with a process: the id, the
\* entry of pendingRequests, the write and the timer.  (Without a process
\* the call throws before it takes an id.)
SendRequest ==
    /\ pc = "stdio"
    /\ stdio.process = "spawned"
    /\ stdio.requestId < MaxRequests
    /\ LET id == stdio.requestId + 1
       IN  stdio' = [stdio EXCEPT !.requestId = id,
                                  !.pendingRequests = @ \cup {id},
                                  !.requests = Append(@, NewRequest)]
    /\ StdioFrame

\* the callback of process.stdin.write: the write went through, or failed
WriteCallback(id) ==
    /\ pc = "stdio"
    /\ id \in DOMAIN stdio.requests
    /\ stdio.requests[id].write = "queued"
    /\ \E err \in BOOLEAN :
        stdio' = IF err
                 THEN [stdio EXCEPT !.pendingRequests = @ \ {id},
                                    !.requests[id] =
                                        [Settle(@, "rejected", "writeError")
                                            EXCEPT !.write = "done"]]
                 ELSE [stdio EXCEPT !.requests[id].write = "done"]
    /\ StdioFrame

\* the server writes a line to its stdout; lines are handled one by one
ServerWrites(line) ==
    /\ pc = "stdio"
    /\ stdio.process = "spawned"
    /\ stdio.wire = Null
    /\ stdio' = [stdio EXCEPT !.wire = line]
    /\ StdioFrame

\* a 'data' event: handleData on one complete line
HandleData(line) ==
    /\ pc = "stdio"
    /\ line = stdio.wire
    /\ stdio' = [handleLine(stdio, line) EXCEPT !.wire = Null]
    /\ StdioFrame

\* the setTimeout callback of a request fires
Timeout(id) ==
    /\ pc = "stdio"
    /\ id \in DOMAIN stdio.requests
    /\ stdio.requests[id].timer
    /\ stdio' = IF id \in stdio.pendingRequests
                THEN [stdio EXCEPT !.pendingRequests = @ \ {id},
                                   !.requests[id] =
                                        [Settle(@, "rejected", "timeout")
                                            EXCEPT !.timer = FALSE]]
                ELSE [stdio EXCEPT !.requests[id].timer = FALSE]
    /\ StdioFrame

\* the 'close' event of the process: cleanup()
ProcessClosed ==
    /\ pc = "stdio"
    /\ stdio.process = "spawned" \/ stdio.closeDue
    /\ stdio' = [cleanup(stdio) EXCEPT !.closeDue = FALSE]
    /\ StdioFrame

\* disconnect(): kill, process = null, cleanup(); the close event follows
Disconnect ==
    /\ pc = "stdio"
    /\ stdio.process = "spawned"
    /\ stdio' = [cleanup(stdio) EXCEPT !.closeDue = TRUE]
    /\ StdioFrame

StdioNext ==
    \/ SendRequest
    \/ \E id \in 1..MaxRequests : WriteCallback(id)
    \/ \E line \in Lines : ServerWrites(line)
    \/ \E line \in Lines : HandleData(line)
    \/ \E id \in 1..MaxRequests : Timeout(id)
    \/ ProcessClosed
    \/ Disconnect

StdioSpec == StdioInit /\ [][StdioNext]_vars

----------------------------------------------------------------------------
(* Properties of the orchestration loop (Spec) *)

\* processQuery has returned a state for a query classified as a data query
ReturnedDataQuery == pc = "returned" /\ understandingOutput.requiresDatabase

\* the Evaluate outcomes of the query, as logged in the iteration history
EvaluateOutcomes ==
    {state.iterationHistory[i].evaluation :
        i \in {j \in DOMAIN state.iterationHistory : state.iterationHistory[j].evaluated}}

EveryEvaluateUnsatisfied == \A e \in EvaluateOutcomes : ~e.satisfiesQuery

CallsOf(op) == {i \in DOMAIN calls : calls[i].op = op}

FailedCallsOf(op) == {i \in CallsOf(op) : calls[i].error # "undefined"}

\* C1 as stated: for every data query the returned state has
\* 1 <= iterations <= maxIterations, and iterations = maxIterations whenever
\* every Evaluate outcome of the query (there being one) was unsatisfied.
C1_IterationsAsStated ==
    ReturnedDataQuery =>
        /\ 1 <= state.iterations
        /\ state.iterations <= maxIterations
        /\ (EvaluateOutcomes # {} /\ EveryEvaluateUnsatisfied)
                => state.iterations = maxIterations

\* C1 amended: for every data query the returned state has
\* 1 <= iterations <= maxIterations, and iterations = maxIterations whenever
\* no Generate stage failed and every Evaluate outcome was unsatisfied.
C1_Iterations ==
    ReturnedDataQuery =>
        /\ 1 <= state.iterations
        /\ state.iterations <= maxIterations
        /\ (FailedCallsOf("generate") = {} /\ EveryEvaluateUnsatisfied)
                => state.iterations = maxIterations

\* the budget of 3 is used up by three unsatisfied evaluations
C1_Witness ==
    /\ ReturnedDataQuery
    /\ FailedCallsOf("generate") = {}
    /\ Cardinality(CallsOf("evaluate")) = 3
    /\ EveryEvaluateUnsatisfied
    /\ maxIterations = 3
    /\ state.iterations = 3
    /\ state.finalResult.kind = "final"

\* C5: when Execute fails in iteration k < maxIterations, neither Reason nor
\* Evaluate runs for iteration k and the Generate call of iteration k+1
\* receives a hint carrying that execution error; when k = maxIterations,
\* processQuery returns with finalResult = {error: that execution error}.
\* One execution failure followed by a successful, satisfied iteration
\* returns iterations = 2.
C5_ExecuteFailure ==
    /\ \A i \in FailedCallsOf("execute") :
        LET k == calls[i].iteration
        IN  IF k < maxIterations
            THEN /\ \A j \in CallsOf("reason") \cup CallsOf("evaluate") :
                        calls[j].iteration # k
                 /\ IF i < Len(calls)
                    THEN /\ calls[i + 1].op = "generate"
                         /\ calls[i + 1].iteration = k + 1
                         /\ calls[i + 1].hint.kind = "executionFailed"
                         /\ calls[i + 1].hint.text = calls[i].error
                    ELSE /\ pc = "generate"
                         /\ refinementContext.text = calls[i].error
                         /\ state.finalResult = Null
            ELSE /\ i = Len(calls)
                 /\ pc = "returned"
                 /\ state.finalResult = [kind |-> "error", error |-> calls[i].error]
    /\ ( /\ ReturnedDataQuery
         /\ state.finalResult.kind = "final"
         /\ Len(state.iterationHistory) = 2
         /\ ~state.iterationHistory[1].evaluated
         /\ state.iterationHistory[2].evaluated
         /\ state.iterationHistory[2].evaluation.satisfiesQuery )
            => /\ state.iterations = 2
               /\ state.finalResult.iterations = 2

\* budget 3: iteration 1 fails in Execute, iteration 2 succeeds and satisfies
C5_Witness ==
    /\ ReturnedDataQuery
    /\ maxIterations = 3
    /\ FailedCallsOf("execute") = {4}
    /\ calls[4].iteration = 1
    /\ calls[5].op = "generate"
    /\ calls[5].hint = ExecutionHint(calls[4].error)
    /\ Len(state.iterationHistory) = 2
    /\ state.iterationHistory[2].evaluation.satisfiesQuery
    /\ state.iterations = 2
    /\ state.finalResult.kind = "final"

\* C6: processQuery raises to its caller only when a data query is processed
\* with no store adapter configured; every other failure of a collaborator
\* call ends in a returned state.
C6_RaisesOnlyWithoutStore ==
    pc = "raised" =>
        /\ ~dbAdapter
        /\ raised = NoStore
        /\ understandingOutput.requiresDatabase

\* C8: for a query classified conversational, with or without a configured
\* store, processQuery returns (it does not raise) having made no catalog
\* fetch, no Generate and no Execute call; the state has iterations = 0, an
\* empty iteration log and a chat finalResult.
C8_ChatShortCircuit ==
    (pc # "understanding" /\ ~understandingOutput.requiresDatabase) =>
        /\ pc = "returned"
        /\ raised = "none"
        /\ \A i \in DOMAIN calls : calls[i].op = "classify"
        /\ adapterCalls = <<>>
        /\ evaluated = <<>>
        /\ mcpCalls = <<>>
        /\ state.iterations = 0
        /\ state.iterationHistory = <<>>
        /\ state.finalResult.kind = "chat"
        /\ state.finalResult.isChat
        /\ state.finalResult.iterations = 0

\* a conversational query answered although no store is configured
C8_Witness ==
    /\ pc = "returned"
    /\ ~understandingOutput.requiresDatabase
    /\ ~dbAdapter
    /\ state.finalResult.kind = "chat"
    /\ Len(calls) = 1

\* C9: a failed Generate call is the last collaborator call of processQuery:
\* it returns at once with finalResult = {error: the generation error},
\* whatever iteration budget remains.
C9_GenerateFailureTerminal ==
    \A i \in FailedCallsOf("generate") :
        /\ i = Len(calls)
        /\ pc = "returned"
        /\ state.finalResult = [kind |-> "error", error |-> calls[i].error]
        /\ state.iterations = calls[i].iteration
        /\ \A j \in CallsOf("execute") \cup CallsOf("reason") \cup CallsOf("evaluate") :
                calls[j].iteration < calls[i].iteration

\* Generate fails in iteration 1 of 3
C9_Witness ==
    /\ pc = "returned"
    /\ FailedCallsOf("generate") # {}
    /\ state.iterations = 1
    /\ maxIterations = 3
    /\ state.finalResult.kind = "error"

\* C10: for a data query finalResult is null while the loop runs, is not
\* null once processQuery has returned, and once assigned is never assigned
\* a different value.
C10_FinalResultOnce ==
    [][ /\ state.finalResult # Null => state'.finalResult = state.finalResult
        /\ state'.finalResult # Null => pc' = "returned"
        /\ pc' = "returned" => state'.finalResult # Null ]_vars

\* a data query returned after a retried execution failure and an
\* unsatisfied evaluation
C10_Witness ==
    /\ ReturnedDataQuery
    /\ FailedCallsOf("execute") # {}
    /\ EvaluateOutcomes # {}
    /\ state.iterations = 3
    /\ state.finalResult.kind = "final"

\* the terminal states of a query
ChatReply == pc = "returned" /\ state.finalResult.kind = "chat"
Finalized == pc = "returned" /\ state.finalResult.kind = "final"
AbortedOnError == pc = "returned" /\ state.finalResult.kind = "error"

\* C11: with a store configured and no collaborator call rejecting to
\* processQuery (all of them settle, under LiveSpec), every processQuery call
\* ends in ChatReply, Finalized or AbortedOnError, having made at most
\* maxIterations Generate calls and at most maxIterations Execute calls.
C11_Terminates ==
    <>( \/ ~dbAdapter
        \/ raised # "none"
        \/ /\ ChatReply \/ Finalized \/ AbortedOnError
           /\ Cardinality(CallsOf("generate")) <= maxIterations
           /\ Cardinality(CallsOf("execute")) <= maxIterations )

\* the whole budget of 3 spent: three Generate and three Execute calls, the
\* last Execute failing
C11_Witness ==
    /\ AbortedOnError
    /\ dbAdapter
    /\ maxIterations = 3
    /\ Cardinality(CallsOf("generate")) = 3
    /\ Cardinality(CallsOf("execute")) = 3
    /\ FailedCallsOf("execute") # {}
    /\ FailedCallsOf("generate") = {}

\* the iteration history entry of iteration k, once it has been evaluated
EvaluatedEntries(k) ==
    {h \in DOMAIN state.iterationHistory :
        /\ state.iterationHistory[h].iteration = k
        /\ state.iterationHistory[h].evaluated}

\* the Evaluate call calls[i] ended in a judgment failure: the tool failed,
\* or the handler could not parse the completion
JudgmentFailed(i) ==
    \/ calls[i].error # "undefined"
    \/ \E h \in EvaluatedEntries(calls[i].iteration) :
            state.iterationHistory[h].evaluation.reason = UnparsedEvaluation

\* C15: when the Evaluate tool fails or its completion cannot be parsed as a
\* verdict (no {...} in it, or JSON.parse rejects it), the outcome logged for
\* the iteration is satisfied = true, no stage call follows except the chart,
\* and processQuery goes on to the final assembly with that iteration count.
C15_JudgmentFailureExits ==
    /\ \A c \in EvaluateCompletions :
            ~(BraceMatches(c) /\ JSONParses(BraceCapture(c))) =>
                evaluate(Null, Completion(c)).output.satisfiesQuery
    /\ \A i \in CallsOf("evaluate") :
            JudgmentFailed(i) =>
                /\ EvaluatedEntries(calls[i].iteration) # {}
                /\ \A h \in EvaluatedEntries(calls[i].iteration) :
                        /\ state.iterationHistory[h].evaluation.satisfiesQuery
                        /\ h = Len(state.iterationHistory)
                /\ \A j \in DOMAIN calls : j > i => calls[j].op = "generateChart"
                /\ state.iterations = calls[i].iteration
                /\ pc \in {"chart", "returned"}
                /\ pc = "returned" =>
                        /\ Finalized
                        /\ state.finalResult.iterations = calls[i].iteration

\* the second of three iterations: the first verdict was unsatisfied, the
\* second completion does not parse, and the query is finalized after 2
C15_Witness ==
    /\ Finalized
    /\ maxIterations = 3
    /\ state.iterations = 2
    /\ Len(state.iterationHistory) = 2
    /\ ~state.iterationHistory[1].evaluation.satisfiesQuery
    /\ state.iterationHistory[2].evaluation.reason = UnparsedEvaluation
    /\ state.finalResult.iterations = 2

\* C16: when the classify tool returns success = false, processQuery goes on
\* as for a data query with requiresDatabase = true and shouldVisualize =
\* false: no chat reply, the store check and the catalog come next, the
\* stages after them are called, and no chart is asked for.
C16_ClassifyFailureDefaults ==
    \A i \in FailedCallsOf("classify") :
        /\ understandingOutput.requiresDatabase
        /\ ~understandingOutput.shouldVisualize
        /\ ~ChatReply
        /\ dbAdapter => /\ pc # "raised" => raised = "none"
                        /\ pc = "raised" => raised \in CatalogErrors
                        /\ pc = "returned" => CallsOf("generate") # {}
        /\ ~dbAdapter => pc = "raised" /\ raised = NoStore
        /\ CallsOf("generateChart") = {}

\* classify failed and the loop was entered: Generate has been called
C16_Witness ==
    /\ FailedCallsOf("classify") # {}
    /\ dbAdapter
    /\ understandingOutput = DefaultUnderstanding
    /\ CallsOf("generate") # {}
    /\ pc = "returned"

\* C17: generateChart is called only for a query that asked for a
\* visualization and whose last result set is non-empty, at most once and as
\* the last stage call; after it, whether it succeeded or not, processQuery
\* returns a Finalized result carrying the data and the explanation, and the
\* result has a visualizationSpec only if the chart call succeeded.
C17_ChartNeverFailsQuery ==
    /\ \A i \in CallsOf("generateChart") :
            /\ understandingOutput.shouldVisualize
            /\ lastExecutionOutput # Null
            /\ lastExecutionOutput.data = "rows"
            /\ CallsOf("generateChart") = {i}
            /\ i = Len(calls)
            /\ raised = "none"
            /\ Finalized
            /\ state.finalResult.data = "rows"
            /\ lastReasoningOutput # Null
            /\ state.finalResult.explanation = lastReasoningOutput.explanation
            /\ calls[i].error # "undefined" => state.finalResult.visualizationSpec = "undefined"
    /\ (Finalized /\ state.finalResult.visualizationSpec # "undefined") =>
            \E i \in CallsOf("generateChart") : calls[i].error = "undefined"

\* the chart call failed and the query is finalized without a chart
C17_Witness ==
    /\ Finalized
    /\ FailedCallsOf("generateChart") # {}
    /\ state.finalResult.data = "rows"
    /\ state.finalResult.visualizationSpec = "undefined"
    /\ understandingOutput.shouldVisualize

\* the hint the claim expects after an unsatisfied verdict: the evaluator's
\* suggestion when it gave one, else the generic text around its reason
ExpectedHint(verdict) ==
    IF verdict.suggestedRefinement # "undefined"
    THEN [kind |-> "suggested", text |-> verdict.suggestedRefinement]
    ELSE [kind |-> "notSatisfied", text |-> verdict.reason]

\* C20: after the Evaluate outcome of iteration k, if it is satisfied or
\* k = maxIterations no Generate call follows; otherwise the next stage call
\* is the Generate of iteration k + 1, given a non-empty hint: the suggested
\* refinement when there is one, else the generic hint with the reason.
C20_LoopControl ==
    \A i \in CallsOf("evaluate") :
        LET k == calls[i].iteration
        IN  /\ EvaluatedEntries(k) # {}
            /\ \A h \in EvaluatedEntries(k) :
                    LET verdict == state.iterationHistory[h].evaluation
                    IN  IF verdict.satisfiesQuery \/ k = maxIterations
                        THEN \A j \in CallsOf("generate") : j < i
                        ELSE /\ ExpectedHint(verdict) # NoHint
                             /\ ExpectedHint(verdict).text # "undefined"
                             /\ IF i = Len(calls)
                                THEN /\ pc = "generate"
                                     /\ refinementContext = ExpectedHint(verdict)
                                ELSE /\ calls[i + 1].op = "generate"
                                     /\ calls[i + 1].iteration = k + 1
                                     /\ calls[i + 1].hint = ExpectedHint(verdict)

\* iteration 1 of 3 judged unsatisfied with a suggestion, and the Generate of
\* iteration 2 called with that suggestion
C20_Witness ==
    /\ maxIterations = 3
    /\ Len(state.iterationHistory) >= 1
    /\ ~state.iterationHistory[1].evaluation.satisfiesQuery
    /\ state.iterationHistory[1].evaluation.suggestedRefinement # "undefined"
    /\ \E i \in CallsOf("evaluate") :
            /\ calls[i].iteration = 1
            /\ i < Len(calls)
            /\ calls[i + 1].op = "generate"
            /\ calls[i + 1].iteration = 2
            /\ calls[i + 1].hint.kind = "suggested"
            /\ calls[i + 1].hint.text =
                    state.iterationHistory[1].evaluation.suggestedRefinement

\* s is an initial segment of t
IsPrefix(s, t) == Len(s) <= Len(t) /\ SubSeq(t, 1, Len(s)) = s

\* the stage calls that may directly follow calls[i]
FollowsInOrder(i) ==
    LET this == calls[i]
        next == calls[i + 1]
    IN  CASE this.op = "classify" -> next.op = "getSchemaMetadata" /\ next.iteration = 0
          [] this.op = "getSchemaMetadata" -> next.op = "generate" /\ next.iteration = 1
          [] this.op = "generate" ->
                next.op = "execute" /\ next.iteration = this.iteration
          [] this.op = "execute" ->
                \/ next.op = "reason" /\ next.iteration = this.iteration
                \/ next.op = "generate" /\ next.iteration = this.iteration + 1
          [] this.op = "reason" ->
                next.op = "evaluate" /\ next.iteration = this.iteration
          [] this.op = "evaluate" ->
                \/ next.op = "generate" /\ next.iteration = this.iteration + 1
                \/ next.op = "generateChart" /\ next.iteration = this.iteration
          [] OTHER -> FALSE

\* the stage calls made so far, in the order of the stage sequence
StagesInOrder ==
    /\ calls # <<>> => calls[1].op = "classify"
    /\ \A i \in 1..(Len(calls) - 1) : FollowsInOrder(i)

\* the stages of the entries of state.responses, in the order of the sequence
ResponsesInOrder ==
    \A i \in 1..(Len(state.responses) - 1) :
        LET this == state.responses[i].stage
            next == state.responses[i + 1].stage
        IN  CASE this = "understanding" -> next \in {"generation", "chat"}
              [] this = "generation" -> next = "execution"
              [] this = "execution" -> next \in {"reasoning", "generation"}
              [] this = "reasoning" -> next = "generation"
              [] OTHER -> FALSE

\* C21: the stages of one processQuery call run one after another,
\* Understanding first, then per iteration Generate, Execute, Reason,
\* Evaluate; each step makes at most one stage call, after the calls made
\* before it, and state.responses only grows at its end: the entries it held
\* stay as they were and where they were.
C21_StagesSequential ==
    [][ /\ IsPrefix(state.responses, state'.responses)
        /\ Len(state'.responses) <= Len(state.responses) + 2
        /\ IsPrefix(calls, calls')
        /\ Len(calls') <= Len(calls) + 1
        /\ StagesInOrder'
        /\ ResponsesInOrder' ]_vars

\* two full iterations: seven entries in state.responses, ten stage calls
C21_Witness ==
    /\ Finalized
    /\ state.iterations = 2
    /\ Len(state.responses) = 7
    /\ Cardinality(CallsOf("evaluate")) = 2

\* the entries of state.responses that are ExecutionResults
ExecutionResponses(st) == {i \in DOMAIN st.responses : st.responses[i].stage = "execution"}

\* this step is the Execute stage of an iteration
ExecuteStep == Len(calls') = Len(calls) + 1 /\ calls'[Len(calls')].op = "execute"

\* C22: an Execute step appends exactly one ExecutionResult to
\* state.responses and runs exactly one execution path, the statement path
\* for an artifact declared "sql" and the script path for one declared
\* "javascript" (the statement path evaluates no script); no other step
\* appends an ExecutionResult or runs a path, and no iteration has two.
C22_OneExecutionPerIteration ==
    [][ /\ ExecuteStep =>
            /\ state'.responses =
                    Append(state.responses, Response("execution", lastExecutionOutput'))
            /\ Len(execKinds') = Len(execKinds) + 1
            /\ execKinds'[Len(execKinds')] \in {"sql", "javascript"}
            /\ execKinds'[Len(execKinds')] = lastCodeOutput.language
            /\ lastCodeOutput.language = "sql" => evaluated' = evaluated
            /\ lastCodeOutput.language = "javascript" =>
                    Len(evaluated') <= Len(evaluated) + 1
        /\ ~ExecuteStep =>
            /\ execKinds' = execKinds
            /\ adapterCalls' = adapterCalls
            /\ evaluated' = evaluated
            /\ Cardinality(ExecutionResponses(state')) =
                    Cardinality(ExecutionResponses(state))
        /\ \A i, j \in {c \in DOMAIN calls' : calls'[c].op = "execute"} :
                calls'[i].iteration = calls'[j].iteration => i = j ]_vars

\* three iterations reached Execute, by both paths: three ExecutionResults
C22_Witness ==
    /\ pc = "returned"
    /\ Len(execKinds) = 3
    /\ Cardinality(ExecutionResponses(state)) = 3
    /\ \E i, j \in DOMAIN execKinds : execKinds[i] = "sql" /\ execKinds[j] = "javascript"

\* processQuery has built the state of a data query
DataQueryState == state # NoState /\ state.finalResult.kind # "chat"

SnapshotFetchedOnce ==
    /\ Cardinality(CallsOf("getSchemaMetadata")) <= 1
    /\ \A f \in CallsOf("getSchemaMetadata") :
        /\ \E c \in CallsOf("classify") : c < f
        /\ \A g \in CallsOf("generate") : f < g
    /\ CallsOf("generate") # {} => DataQueryState
    /\ DataQueryState =>
        /\ Cardinality(CallsOf("getSchemaMetadata")) = 1
        /\ state.schemaMetadata \in Schemas
        /\ \A g \in CallsOf("generate") : calls[g].schema = state.schemaMetadata

\* C25: for a data query the catalog snapshot is fetched exactly once, after
\* classification and before the first Generate; every Generate receives that
\* snapshot, and no stage of the loop changes state.schemaMetadata.
C25_SnapshotFixed ==
    [][ /\ SnapshotFetchedOnce'
        /\ DataQueryState =>
            (DataQueryState' /\ state'.schemaMetadata = state.schemaMetadata) ]_vars

C25_Witness ==
    /\ Finalized
    /\ Cardinality(CallsOf("generate")) >= 2
    /\ \A g \in CallsOf("generate") : calls[g].schema = state.schemaMetadata

\* the entries of an iteration log are numbered 1, 2, ... and all but the
\* first carry a refinement hint
LogWellFormed(log) ==
    \A i \in DOMAIN log :
        /\ log[i].iteration = i
        /\ IF i = 1 THEN log[i].refinementContext = NoHint
                    ELSE /\ log[i].refinementContext # NoHint
                         /\ log[i].refinementContext.kind # "undefined"
                         /\ log[i].refinementContext.text # "undefined"

\* C27: in every state processQuery returns for a data query the iteration
\* log is numbered 1, 2, ... without gaps or duplicates, its first entry has
\* no refinement hint and every later one has; the log is as long as
\* iterations when the result is Finalized and one shorter when the query
\* aborted on a generation failure or on the last execution failure.
C27_IterationLog ==
    (pc = "returned" /\ DataQueryState) =>
        /\ Finalized \/ AbortedOnError
        /\ LogWellFormed(state.iterationHistory)
        /\ Finalized =>
            /\ Len(state.iterationHistory) = state.iterations
            /\ state.finalResult.iterations = state.iterations
            /\ state.finalResult.iterationHistory = state.iterationHistory
        /\ AbortedOnError => Len(state.iterationHistory) = state.iterations - 1

\* an abort in the third iteration, after a failed execution and an
\* unsatisfied judgment
C27_Witness ==
    /\ AbortedOnError
    /\ state.iterations = 3
    /\ Len(state.iterationHistory) = 2
    /\ ~state.iterationHistory[1].evaluated
    /\ state.iterationHistory[2].evaluated
    /\ state.iterationHistory[2].refinementContext.kind = "executionFailed"

\* the collaborator calls of one iteration, in the order made
CallsOfIteration(k) ==
    LET F[i \in 0..Len(calls)] ==
            IF i = 0 THEN <<>>
            ELSE IF calls[i].iteration = k THEN Append(F[i - 1], calls[i].op)
            ELSE F[i - 1]
    IN  F[Len(calls)]

\* C28: in every Finalized result data, executionTime and explanation come
\* from the last iteration executed: that iteration's Execute succeeded and
\* its Reason and Evaluate ran, the data and the elapsed time are those of
\* its ExecutionResult and the explanation that of its ReasoningOutput; the
\* output of a failed execution is never the final data.
C28_FinalFromLastIteration ==
    Finalized =>
        LET n == Len(state.responses)
            last == state.iterations
            ran == CallsOfIteration(last)
        IN  /\ last >= 1
            /\ n >= 3
            /\ state.responses[n - 1].stage = "execution"
            /\ state.responses[n].stage = "reasoning"
            /\ state.responses[n - 1].output.success
            /\ state.finalResult.data = state.responses[n - 1].output.data
            /\ state.finalResult.data \in RowSets
            /\ state.finalResult.executionTime = state.responses[n - 1].output.executionTime
            /\ state.finalResult.explanation = state.responses[n].output.explanation
            /\ Len(ran) >= 4
            /\ SubSeq(ran, 1, 4) = <<"generate", "execute", "reason", "evaluate">>
            /\ \A i \in CallsOf("execute") :
                    calls[i].iteration = last => calls[i].error = "undefined"
            /\ state.iterationHistory[Len(state.iterationHistory)].iteration = last
            /\ state.iterationHistory[Len(state.iterationHistory)].evaluated

\* finalized in the second iteration on an empty result set, the first
\* iteration having fetched rows that were judged insufficient
C28_Witness ==
    /\ Finalized
    /\ state.iterations = 2
    /\ Cardinality(ResponsesOf(state, "execution")) = 2
    /\ state.responses[Min(ResponsesOf(state, "execution"))].output.data = "rows"
    /\ state.finalResult.data = "empty"
    /\ state.finalResult.explanation = state.responses[Len(state.responses)].output.explanation

----------------------------------------------------------------------------
(* Properties of the execution gate (GateSpec) *)

GateDone(language) == pc = "gateDone" /\ lastCodeOutput.language = language

\* the denylisted operations, in lower case
TwoWordOperations ==
    { <<"drop", "table">>, <<"drop", "database">>, <<"delete", "from">>,
      <<"alter", "table">>, <<"create", "table">>, <<"insert", "into">> }

OneWordOperations == {"truncate", "grant", "revoke"}

\* the text contains a denylisted operation, whatever the letter case
ContainsDenylisted(code) ==
    LET text == LowerText(code)
    IN  \/ \E i \in DOMAIN text : text[i] \in OneWordOperations
        \/ \E i \in DOMAIN text : \E j \in DOMAIN text :
            /\ i < j
            /\ \/ <<text[i], text[j]>> \in TwoWordOperations /\ SpacesBetween(code, i, j)
               \/ /\ text[i] = "update"
                  /\ text[j] = "set"
                  /\ SpacesAnySpacesBetween(code, i, j)

C3_ScriptStatementsChecked ==
    GateDone("javascript") =>
        \A i \in DOMAIN adapterCalls : ~ContainsDenylisted(adapterCalls[i])

\* JavaScript identifiers: IdentifierPart is a \w character or '$'
IsIdentifierAtom(a) == IsWordAtom(a) \/ a = "$"

\* the atom at i is a whole identifier, not part of a longer one
WholeIdentifierAt(code, i) ==
    /\ i = 1 \/ ~IsIdentifierAtom(code[i - 1])
    /\ i = Len(code) \/ ~IsIdentifierAtom(code[i + 1])

\* the atom at i is the property name of a member access: the token before
\* it is '.'
PropertyNameAt(code, i) ==
    \E j \in 1..(i - 1) :
        /\ code[j] = "."
        /\ \A k \in (j + 1)..(i - 1) : IsSpace(code[k])

BlockedNames == {blockedGlobals[n] : n \in DOMAIN blockedGlobals}

BareReferences(code) ==
    {i \in DOMAIN code : /\ code[i] \in BlockedNames
                         /\ WholeIdentifierAt(code, i)
                         /\ ~PropertyNameAt(code, i)}

OnlyInsideLongerIdentifiers(code) ==
    /\ \E i \in DOMAIN code : code[i] \in BlockedNames
    /\ \A i \in DOMAIN code : code[i] \in BlockedNames => ~WholeIdentifierAt(code, i)

RejectedAsForbidden == \E g \in BlockedNames : lastExecutionOutput.error = ForbiddenCapability(g)

\* C4: a script that references a denylisted capability name as a bare word
\* is rejected with ForbiddenCapability and nothing of it is evaluated; a
\* script in which such names occur only inside longer identifiers is not
\* rejected by the denylist test.
C4_BareWordRejected ==
    GateDone("javascript") =>
        /\ BareReferences(lastCodeOutput.code) # {}
                => /\ ~lastExecutionOutput.success
                   /\ RejectedAsForbidden
                   /\ evaluated = <<>>
                   /\ adapterCalls = <<>>
        /\ OnlyInsideLongerIdentifiers(lastCodeOutput.code) => ~RejectedAsForbidden

C23_BlockedNamesShadowed ==
    (GateDone("javascript") /\ evaluated # <<>>) =>
        \A i \in BareReferences(lastCodeOutput.code) :
            ScopeBinding(lastCodeOutput.code[i]) = "undefined"

-----------------------------------------------------------------------------
(* Properties of the execution gate with an MCP server (McpGateSpec)       *)

\* the artifact is one the denylist tests name
Denylisted(codeOutput) ==
    IF codeOutput.language = "sql"
    THEN ContainsDenylisted(codeOutput.code)
    ELSE BareReferences(codeOutput.code) # {}

\* C26: the denylist tests apply whatever the route: a statement holding a
\* denylisted operation, or a script referring to a denylisted capability,
\* is rejected before any remote tool call, also when execution is delegated
\* to a connected MCP server.
C26_DenylistOnEveryRoute ==
    (pc = "gateDone" /\ useMCP /\ mcpConnected /\ Denylisted(lastCodeOutput)) =>
        /\ mcpCalls = <<>>
        /\ ~lastExecutionOutput.success

----------------------------------------------------------------------------
(* Properties of Agent.executeTool (AgentSpec) *)

\* C7: no executeTool call throws; a call for an unknown tool, with an input
\* its schema rejects, or whose handler throws returns success = false with
\* an error string, the agent name, a duration and a timestamp; the handler
\* is not invoked for an unknown tool or a rejected input.
C7_ExecuteToolNeverThrows ==
    /\ \A i \in DOMAIN toolRuns :
        LET run == toolRuns[i]
        IN  /\ ~run.threw
            /\ (~run.registered \/ ~run.inputValid \/ run.handler.kind # "return")
                    => /\ ~run.result.success
                       /\ run.result.error # "undefined"
                       /\ run.result.agentName = AgentName
                       /\ run.result.executionTime >= 0
                       /\ run.result.timestamp = run.startTime + run.result.executionTime
            /\ (~run.registered \/ ~run.inputValid) => ~run.handlerInvoked
    /\ handlerCalls = Cardinality({i \in DOMAIN toolRuns : toolRuns[i].handlerInvoked})

\* an unknown tool, then a registered tool whose handler throws
C7_Witness ==
    /\ Len(toolRuns) = 2
    /\ ~toolRuns[1].registered
    /\ toolRuns[2].registered
    /\ toolRuns[2].inputValid
    /\ toolRuns[2].handler.kind = "throwError"
    /\ ~toolRuns[2].result.success
    /\ handlerCalls = 1

\* C13: for a tool that declares an output shape, executeTool returns
\* success = true only if the handler returned a value of that shape; when
\* the returned value does not have it, the result is success = false with an
\* error and no output.
C13_OutputShapeChecked ==
    \A i \in DOMAIN toolRuns :
        LET run == toolRuns[i]
        IN  run.outputSchema =>
                /\ run.result.success =>
                        /\ run.handler.kind = "return"
                        /\ run.handler.output = "value"
                        /\ run.result.output = run.handler.output
                /\ (run.inputValid /\ run.handler = Returned("malformed")) =>
                        /\ ~run.result.success
                        /\ run.result.error # "undefined"
                        /\ run.result.output = "undefined"

\* the classify tool, whose handler returns a value its output schema rejects
C13_Witness ==
    /\ Len(toolRuns) = 1
    /\ toolRuns[1].toolName = "classify"
    /\ toolRuns[1].outputSchema
    /\ toolRuns[1].inputValid
    /\ toolRuns[1].handler = Returned("malformed")
    /\ toolRuns[1].handlerInvoked
    /\ ~toolRuns[1].result.success

----------------------------------------------------------------------------
(* Properties of the tool handlers (HandlerSpec) *)

\* the tool call has been made and has settled
Handled == pc = "handled" /\ Len(toolRuns) = 1

\* the LLM answered the handler's request with an empty text
ObtainedEmptyCompletion == pending.response = Completion(<<>>)

\* C14: a tool whose handler obtains an empty completion, through chat or
\* through chatJSON, ends with a RunResult of success = false.
C14_EmptyCompletionFails ==
    (Handled /\ ObtainedEmptyCompletion) => ~toolRuns[1].result.success

\* a row-limiting clause: the keyword LIMIT as a word of the statement
HasLimitClause(code) == \E i \in DOMAIN code : Upper(code[i]) = "LIMIT"

\* the generate call returned a SQL artifact
GeneratedSQL ==
    /\ Handled
    /\ pending.tool.name = "generate"
    /\ pending.response.kind = "content"
    /\ toolRuns[1].result.success
    /\ toolRuns[1].result.output.language = "sql"

\* C18: a SQL artifact extracted without a row-limiting clause is returned
\* with ' LIMIT <maxRows>;' appended (maxRows: the input's ceiling, 500 when
\* none is given), one extracted with such a clause is returned unmodified,
\* every SQL artifact returned carries a limit clause, and the rewrite leaves
\* its own output as it is.
C18_LimitRewrite ==
    GeneratedSQL =>
        LET extracted == extractCode(pending.response.content).code
            returned == toolRuns[1].result.output.code
            maxRows == MaxRowsOf(pending.input)
        IN  /\ ~HasLimitClause(extracted) => returned = AppendLimit(extracted, maxRows)
            /\ HasLimitClause(extracted) => returned = extracted
            /\ HasLimitClause(returned)
            /\ EnsureLimit(returned, "sql", maxRows) = returned

----------------------------------------------------------------------------
(* Properties of concurrent queries (CallersSpec) *)

\* C19: queries of different callers share no mutable state (the catalog
\* cache apart): what a query's Execute stage runs on is its own
\* orchestrator's, opened for the server that orchestrator was configured
\* with, whatever the other callers did before or in between.
C19_QueriesIndependent ==
    \A q \in Callers :
        orchestrators[q].pc = "returned" =>
            /\ orchestrators[q].executedOn.openedBy = q
            /\ orchestrators[q].executedOn.server # "local" =>
                    orchestrators[q].executedOn.server =
                        orchestrators[q].mcpServerConfig.server

-----------------------------------------------------------------------------
(* Properties of the catalog cache (CatalogSpec)                           *)

Unexpired(h) ==
    schemaCache[h] # Null /\ DateNow - schemaCache[h].timestamp < SCHEMA_CACHE_TTL

\* C24: under any interleaving of catalog fetches an entry of the catalog
\* cache is never replaced or modified while it is younger than the TTL.
C24_EntryImmutable ==
    [][ \A h \in ConfigHashes : Unexpired(h) => schemaCache'[h] = schemaCache[h] ]_vars

-----------------------------------------------------------------------------
(* Properties of AgentLoop.run (LoopSpec)                                  *)

ToolEvents == {k \in DOMAIN loopRun.events : loopRun.events[k].kind = "tool"}

\* C29: run() executes its stages in the configured order, runs no stage
\* after the first that fails or throws, and returns success = true exactly
\* when every stage it executed returned a successful result and no mapper
\* or callback threw.
C29_LoopStopsAndReports ==
    /\ \A j \in ToolEvents : \A k \in ToolEvents :
            j < k => loopRun.events[j].stage < loopRun.events[k].stage
    /\ \A j \in DOMAIN loopRun.events : \A k \in ToolEvents :
            j < k => loopRun.events[j].success
    /\ loopRun.status = "returned" =>
            (loopRun.success <=> \A k \in DOMAIN loopRun.events : loopRun.events[k].success)

-----------------------------------------------------------------------------
(* Properties of MCPStdioConnection (StdioSpec)                            *)

Settled(id) == stdio.requests[id].promise # "pending"

\* a step that handles a line whose id is not in pendingRequests
StaleLineHandled ==
    \E line \in Lines : HandleData(line) /\ line.id \notin stdio.pendingRequests

\* C30: the requests of a connection carry the ids 1, 2, ... in the order
\* made; a request's promise is settled once, by a matching response line, a
\* write error, its timer or the close of the connection, its id is in
\* pendingRequests exactly as long as the promise is unsettled (and the
\* timer of an unsettled request is still to fire); a line whose id matches
\* no pending request changes neither pendingRequests nor any promise.
C30_SettledOnce ==
    [][ /\ stdio'.requestId \in {stdio.requestId, stdio.requestId + 1}
        /\ DOMAIN stdio'.requests = 1..stdio'.requestId
        /\ stdio'.pendingRequests \subseteq DOMAIN stdio'.requests
        /\ \A id \in DOMAIN stdio'.requests :
            /\ (id \in stdio'.pendingRequests) <=> ~Settled(id)'
            /\ ~Settled(id)' => stdio'.requests[id].timer
            /\ Settled(id)' =>
                stdio'.requests[id].settledBy \in
                    {"response", "writeError", "timeout", "close"}
        /\ \A id \in DOMAIN stdio.requests :
            Settled(id) =>
                /\ stdio'.requests[id].promise = stdio.requests[id].promise
                /\ stdio'.requests[id].settledBy = stdio.requests[id].settledBy
                /\ id \notin stdio'.pendingRequests
        /\ StaleLineHandled =>
            /\ stdio'.pendingRequests = stdio.pendingRequests
            /\ stdio'.requests = stdio.requests ]_vars

\* two requests made and settled, one by its response and one by its
\* timer, every line handled and the timer of the first fired since
C30_Witness ==
    /\ stdio.requestId = 2
    /\ stdio.pendingRequests = {}
    /\ stdio.requests[1].settledBy = "response"
    /\ stdio.requests[1].promise = "resolved"
    /\ stdio.requests[2].settledBy = "timeout"
    /\ stdio.wire = Null
    /\ ~stdio.requests[1].timer

====
